---- MODULE Spec2Model ----
(***************************************************************************)
(* Speech coach: the streaming audio analysis pipeline.                    *)
(*                                                                         *)
(* AudioManager (src/src/audio/audio_manager.py) is modelled as a          *)
(* concurrent state machine: the UI (main) thread issues start/stop and    *)
(* settings commands through MainWindow, the PortAudio callback thread     *)
(* appends frames to audio_buffer, and each start_recording creates a      *)
(* background thread that runs _process_audio_buffer.                      *)
(*                                                                         *)
(* Scaling.  Durations are counted in half seconds (3.0 s = 6, 0.5 s = 1)  *)
(* and the sample rate in samples per second is scaled down from 16000 to  *)
(* SampleRate, so that int(duration * sample_rate) is                      *)
(* (halves * sample_rate) \div 2.  Samples are numbered 1, 2, 3, ... in    *)
(* the order in which the capture callback appends them, so that two       *)
(* windows agree at a position only if they hold the same captured sample. *)
(* The analyzer (src/src/analysis/speech_analyzer.py) is modelled as the    *)
(* pipeline of analyze_audio, stage by stage.  The signal processing       *)
(* libraries and the transcription engine are outside the program: what    *)
(* they return for a window is drawn from small sets, and each score is    *)
(* computed from those raw values as the code computes it.  A window given *)
(* to the analyzer is a short sequence of 16-bit amplitudes at the scaled   *)
(* sample rate.                                                            *)
(*                                                                         *)
(* Time since a loop's last emit is counted in whole emit intervals of 0.1  *)
(* s (saturating at one): a sleep of 10 ms completes the interval or not.  *)
(***************************************************************************)
EXTENDS Integers, Sequences, FiniteSets, TLC

\* ---------------------------------------------------------------- bounds
\* samples the capture device delivers in a run
MaxSamples == 3
\* clicks of the user in a run: start, stop, save settings
MaxCalls == 4
\* windows waiting in the signal queue of the main thread
MaxQueue == 1
\* samples per callback frame (chunk_size, scaled)
FrameLen == 1
\* samples per second (sample_rate, scaled)
SampleRate == 1
\* largest chunk and overlap durations the settings form sends, in seconds
MaxChunkSeconds == 2
MaxOverlapSeconds == 1
\* longest window handed to the analyzer, in samples
MaxWindowLen == 3
\* longest transcription the engine prints for a window, in tokens
MaxWords == 2
\* longest transcription handed to the text extractors, in tokens
MaxTokens == 5
\* words of the longest transcription of the speaking-rate stage
MaxRateWords == 10
\* temporary files the analyzer may leave behind
MaxTmpFiles == 1

\* ------------------------------------------------------ program constants
\* audio_manager.py: windows are emitted at most every 0.1 s; elapsed time
\* is counted in whole emit intervals, saturating at one
EmitInterval == 1
\* defaults of AudioManager.__init__, in half seconds
DefaultChunkHalves == 6
DefaultOverlapHalves == 1

VARIABLES
  \* AudioManager fields
  sample_rate, analysis_chunk_duration, overlap_duration,
  audio_buffer, buffer_lock, stream, is_recording, recording_thread,
  \* MainWindow
  mw_is_recording, queue,
  \* control state of the threads
  mainPc, cbPc, loops,
  \* capture device and environment
  leakedActive, nextSample, lastError, calls,
  \* history of the session
  session, sessionFirst, lastSlice, slicers,
  \* SpeechAnalyzer fields, the analysis in progress and its result
  whisper_available, thresholds, filler_words, tmp_files, anPc, cur, result,
  \* SettingsWidget: the 'analysis' section of the settings last saved
  settings,
  \* SettingsWidget: the 'audio' section of its settings (durations in half
  \* seconds) and the values of the spin boxes of the form
  audio_settings, form

audioVars == <<sample_rate, analysis_chunk_duration, overlap_duration,
               audio_buffer, buffer_lock, stream, is_recording,
               recording_thread, mw_is_recording, queue,
               mainPc, cbPc, loops, leakedActive, nextSample, lastError,
               calls, session, sessionFirst, lastSlice, slicers>>

analyzerVars == <<whisper_available, thresholds, filler_words, tmp_files,
                  anPc, cur, result,
                  settings>>

widgetVars == <<audio_settings, form>>

vars == <<audioVars, analyzerVars, widgetVars>>

\* start_recording creates one loop thread per session; the thread is
\* named by the number of its session
LoopIds == 1..MaxCalls

\* the threads, as holders of buffer_lock
MainThread == <<"main", 0>>
CallbackThread == <<"cb", 0>>
LoopThread(t) == <<"loop", t>>

\* ------------------------------------------------------------- helpers
Min(a, b) == IF a < b THEN a ELSE b
Max(a, b) == IF a > b THEN a ELSE b

\* Python s[:n] for a sequence (n may be negative or exceed the length)
PyPrefix(s, n) ==
  IF n >= 0 THEN SubSeq(s, 1, Min(n, Len(s)))
  ELSE SubSeq(s, 1, Max(Len(s) + n, 0))

\* Python s[k:] for a sequence (k may be negative or exceed the length)
PySuffix(s, k) ==
  IF k >= 0 THEN SubSeq(s, Min(k, Len(s)) + 1, Len(s))
  ELSE SubSeq(s, Max(Len(s) + k, 0) + 1, Len(s))

\* int(duration * sample_rate) with the duration in half seconds
DurationSamples(halves, rate) == (halves * rate) \div 2

\* ------------------------------------------------- AudioManager.__init__
NoChunk == <<>>

\* the loop thread of a session before start_recording has created it
UnbornLoop ==
  [pc |-> "unborn", analysis_chunk_samples |-> 0, overlap_samples |-> 0,
   step_samples |-> 0, chunk |-> NoChunk, chunkSession |-> 0,
   sinceEmit |-> EmitInterval]

\* a thread that has returned from _process_audio_buffer
EndedLoop == [UnbornLoop EXCEPT !.pc = "done"]

\* no window has been sliced in the session yet
NoSlice == [win |-> <<>>, by |-> 0]

\* everything but the two durations
AudioIdle ==
  /\ sample_rate = SampleRate
  /\ audio_buffer = <<>>
  /\ buffer_lock = {}
  /\ stream = "None"
  /\ is_recording = FALSE
  /\ recording_thread = 0
  /\ mw_is_recording = FALSE
  /\ queue = <<>>
  /\ mainPc = "idle"
  /\ cbPc = "idle"
  /\ loops = [t \in LoopIds |-> UnbornLoop]
  /\ leakedActive = FALSE
  /\ nextSample = 1
  /\ lastError = "none"
  /\ calls = 0
  /\ session = 0
  /\ sessionFirst = 1
  /\ lastSlice = NoSlice
  /\ slicers = {}

AudioInit ==
  /\ analysis_chunk_duration = DefaultChunkHalves
  /\ overlap_duration = DefaultOverlapHalves
  /\ AudioIdle

\* ------------------------------------------------------------ the lock
\* threading.Lock: acquire blocks while another thread holds it
Acquire(who) ==
  /\ buffer_lock = {}
  /\ buffer_lock' = {who}

Release(who) == buffer_lock' = buffer_lock \ {who}

\* ------------------------------------------- SettingsWidget.save_settings
\* the 'analysis' section of the settings dictionary: the speaking rate
\* range in words per minute, the filler threshold and the weights in
\* percent, the filler words as a set.  load_default_settings:
DefaultAnalysis ==
  [speaking_rate_range |-> <<150, 200>>,
   filler_threshold |-> 5,
   filler_words |-> {"um", "uh", "er", "ah", "like", "you know", "so",
                     "well", "actually", "basically", "literally",
                     "seriously", "totally"},
   weights |-> [tone |-> 25, clarity |-> 25, volume |-> 20, fluency |-> 30]]

\* a form the user has edited: every spin box stays within its range
CustomAnalysis ==
  [speaking_rate_range |-> <<50, 100>>,
   filler_threshold |-> 20,
   filler_words |-> {"sales"},
   weights |-> [tone |-> 40, clarity |-> 40, volume |-> 40, fluency |-> 40]]

\* the 'analysis' sections save_settings emits
AnalysisForms == {DefaultAnalysis, CustomAnalysis}

\* the 'audio' section of load_default_settings: 3.0 s and 0.5 s
DefaultAudio == [chunk_duration |-> 6, overlap_duration |-> 1]

\* QSpinBox.setValue keeps the value within the range of the box
Clamp(v, lo, hi) == IF v < lo THEN lo ELSE IF v > hi THEN hi ELSE v

\* int(x * 100) of the fraction x = p / 100.0: the product of the floats
\* falls just below the whole number for 0.29, 0.57 and 0.58
PercentSpin(p) == IF p \in {29, 57, 58} THEN p - 1 ELSE p

\* int(seconds) of a duration kept in half seconds
SecondsSpin(halves) == halves \div 2

\* ------------------------------------------- SettingsWidget.load_settings
\* the values load_settings puts into the spin boxes and the word list
LoadedForm(audio, analysis) ==
  [chunk_duration_spin |-> Clamp(SecondsSpin(audio.chunk_duration), 1, 10),
   overlap_duration_spin |->
     Clamp(SecondsSpin(audio.overlap_duration), 0, 2),
   min_rate_spin |-> Clamp(analysis.speaking_rate_range[1], 50, 300),
   max_rate_spin |-> Clamp(analysis.speaking_rate_range[2], 50, 300),
   filler_threshold_spin |->
     Clamp(PercentSpin(analysis.filler_threshold), 1, 20),
   filler_words_edit |-> analysis.filler_words,
   tone_weight_spin |-> Clamp(PercentSpin(analysis.weights.tone), 0, 100),
   clarity_weight_spin |->
     Clamp(PercentSpin(analysis.weights.clarity), 0, 100),
   volume_weight_spin |->
     Clamp(PercentSpin(analysis.weights.volume), 0, 100),
   fluency_weight_spin |->
     Clamp(PercentSpin(analysis.weights.fluency), 0, 100)]

\* the form after the user has typed the durations (whole seconds) and
\* the values of an 'analysis' section into it
EditedForm(chunkSeconds, overlapSeconds, analysis) ==
  [chunk_duration_spin |-> chunkSeconds,
   overlap_duration_spin |-> overlapSeconds,
   min_rate_spin |-> analysis.speaking_rate_range[1],
   max_rate_spin |-> analysis.speaking_rate_range[2],
   filler_threshold_spin |-> analysis.filler_threshold,
   filler_words_edit |-> analysis.filler_words,
   tone_weight_spin |-> analysis.weights.tone,
   clarity_weight_spin |-> analysis.weights.clarity,
   volume_weight_spin |-> analysis.weights.volume,
   fluency_weight_spin |-> analysis.weights.fluency]

\* ------------------------------------------- SettingsWidget.save_settings
\* the 'audio' section save_settings collects from the form
SavedAudio(f) ==
  [chunk_duration |-> 2 * f.chunk_duration_spin,
   overlap_duration |-> 2 * f.overlap_duration_spin]

\* the 'analysis' section save_settings collects from the form
SavedAnalysis(f) ==
  [speaking_rate_range |-> <<f.min_rate_spin, f.max_rate_spin>>,
   filler_threshold |-> f.filler_threshold_spin,
   filler_words |-> f.filler_words_edit,
   weights |-> [tone |-> f.tone_weight_spin,
                clarity |-> f.clarity_weight_spin,
                volume |-> f.volume_weight_spin,
                fluency |-> f.fluency_weight_spin]]

\* SettingsWidget.__init__: the default settings, loaded into the form
WidgetConstructed ==
  /\ audio_settings = DefaultAudio
  /\ form = LoadedForm(DefaultAudio, DefaultAnalysis)

\* ------------------------------------- SpeechAnalyzer.update_settings
\* if 'thresholds' in settings: self.thresholds.update(settings['thresholds'])
StoredThresholds(current, analysis) ==
  IF "thresholds" \in DOMAIN analysis
  THEN [k \in DOMAIN current \cup DOMAIN analysis.thresholds |->
          IF k \in DOMAIN analysis.thresholds
          THEN analysis.thresholds[k] ELSE current[k]]
  ELSE current

\* if 'filler_words' in settings: self.filler_words = settings['filler_words']
StoredFillerWords(current, analysis) ==
  IF "filler_words" \in DOMAIN analysis
  THEN analysis.filler_words ELSE current

\* ---------------------------------------------------- the user's calls
\* one more click of the user: start, stop, or save of the settings form
Called ==
  /\ calls < MaxCalls
  /\ calls' = calls + 1

\* ------------------------------------- AudioManager.update_settings
\* the values update_settings stores for the chunk and overlap durations
\* the settings form sends (whole seconds), in half seconds
StoredDurations(chunkSeconds, overlapSeconds) ==
  [chunk |-> 2 * chunkSeconds, overlap |-> 2 * overlapSeconds]

\* MainWindow.update_settings hands the 'audio' section of the settings
\* form to AudioManager.update_settings and its 'analysis' section to
\* SpeechAnalyzer.update_settings
UpdateSettings(chunkSeconds, overlapSeconds, analysis) ==
  /\ mainPc = "idle"
  /\ anPc = "idle"
  /\ Called
  /\ form' = EditedForm(chunkSeconds, overlapSeconds, analysis)
  /\ audio_settings' = SavedAudio(form')
  /\ settings' = SavedAnalysis(form')
  /\ analysis_chunk_duration' =
       StoredDurations(chunkSeconds, overlapSeconds).chunk
  /\ overlap_duration' = StoredDurations(chunkSeconds, overlapSeconds).overlap
  /\ thresholds' = StoredThresholds(thresholds, analysis)
  /\ filler_words' = StoredFillerWords(filler_words, analysis)
  /\ UNCHANGED <<sample_rate, audio_buffer, buffer_lock, stream,
                 is_recording, recording_thread, mw_is_recording, queue,
                 mainPc, cbPc, loops, leakedActive, nextSample, lastError,
                 session, sessionFirst, lastSlice, slicers,
                 whisper_available, tmp_files, anPc, cur, result>>

\* the user types durations and the values of an 'analysis' section into
\* the form without saving
EditForm(chunkSeconds, overlapSeconds, analysis) ==
  /\ mainPc = "idle"
  /\ form' = EditedForm(chunkSeconds, overlapSeconds, analysis)
  /\ UNCHANGED <<sample_rate, analysis_chunk_duration, overlap_duration,
                 calls, audio_buffer, buffer_lock, stream, is_recording,
                 recording_thread, mw_is_recording, queue, mainPc, cbPc,
                 loops, leakedActive, nextSample, lastError, session,
                 sessionFirst, lastSlice, slicers, whisper_available,
                 thresholds, filler_words, tmp_files, anPc, cur, result,
                 settings, audio_settings>>

\* the user saves the form as it stands
SaveSettings ==
  /\ mainPc = "idle"
  /\ anPc = "idle"
  /\ Called
  /\ audio_settings' = SavedAudio(form)
  /\ settings' = SavedAnalysis(form)
  /\ analysis_chunk_duration' =
       StoredDurations(form.chunk_duration_spin,
                       form.overlap_duration_spin).chunk
  /\ overlap_duration' =
       StoredDurations(form.chunk_duration_spin,
                       form.overlap_duration_spin).overlap
  /\ thresholds' = StoredThresholds(thresholds, SavedAnalysis(form))
  /\ filler_words' = StoredFillerWords(filler_words, SavedAnalysis(form))
  /\ UNCHANGED <<sample_rate, audio_buffer, buffer_lock, stream,
                 is_recording, recording_thread, mw_is_recording, queue,
                 mainPc, cbPc, loops, leakedActive, nextSample, lastError,
                 session, sessionFirst, lastSlice, slicers,
                 whisper_available, tmp_files, anPc, cur, result, form>>

\* reset_to_defaults, confirmed: the default settings are loaded into the
\* form; nothing is emitted
ResetToDefaults ==
  /\ mainPc = "idle"
  /\ Called
  /\ audio_settings' = DefaultAudio
  /\ settings' = DefaultAnalysis
  /\ form' = LoadedForm(DefaultAudio, DefaultAnalysis)
  /\ UNCHANGED <<sample_rate, analysis_chunk_duration, overlap_duration,
                 audio_buffer, buffer_lock, stream, is_recording,
                 recording_thread, mw_is_recording, queue, mainPc, cbPc,
                 loops, leakedActive, nextSample, lastError, session,
                 sessionFirst, lastSlice, slicers, whisper_available,
                 thresholds, filler_words, tmp_files, anPc, cur, result>>

\* the widget and the audio manager once the form, edited to hold an
\* 'analysis' section, has been saved; before any save for the defaults
WidgetAfter(analysis) ==
  IF analysis = DefaultAnalysis
  THEN /\ WidgetConstructed
       /\ analysis_chunk_duration = DefaultChunkHalves
       /\ overlap_duration = DefaultOverlapHalves
  ELSE LET loaded == LoadedForm(DefaultAudio, DefaultAnalysis)
           f == EditedForm(loaded.chunk_duration_spin,
                           loaded.overlap_duration_spin, analysis)
       IN  /\ form = f
           /\ audio_settings = SavedAudio(f)
           /\ analysis_chunk_duration =
                StoredDurations(f.chunk_duration_spin,
                                f.overlap_duration_spin).chunk
           /\ overlap_duration =
                StoredDurations(f.chunk_duration_spin,
                                f.overlap_duration_spin).overlap

\* ------------------------------------------ AudioManager.start_recording
\* a redundant start that empties the buffer all the same
StartAlreadyRecordingClears ==
  /\ mainPc = "idle"
  /\ Called
  /\ is_recording
  /\ audio_buffer' = <<>>
  /\ mw_is_recording' = TRUE
  /\ UNCHANGED <<sample_rate, analysis_chunk_duration, overlap_duration,
                 buffer_lock, stream, is_recording, recording_thread, queue,
                 mainPc, cbPc, loops, leakedActive, nextSample, lastError,
                 session, sessionFirst, lastSlice, slicers,
                 whisper_available, thresholds, filler_words, tmp_files,
                 anPc, cur, result, settings, audio_settings, form>>

\* start_recording while is_recording: "Already recording", plain return;
\* MainWindow.start_real_time_analysis then sets its own flag.
StartAlreadyRecording ==
  /\ mainPc = "idle"
  /\ Called
  /\ is_recording
  /\ mw_is_recording' = TRUE
  /\ UNCHANGED <<sample_rate, analysis_chunk_duration, overlap_duration,
                 audio_buffer, buffer_lock, stream, is_recording,
                 recording_thread, queue, mainPc, cbPc, loops, leakedActive,
                 nextSample, lastError, session, sessionFirst, lastSlice,
                 slicers, whisper_available, thresholds, filler_words,
                 tmp_files, anPc, cur, result, settings, audio_settings,
                 form>>

\* start_recording clearing the buffer before it looks for a source
BufferAfterNoSourceCleared(buf) == <<>>

\* what start_recording does to the buffer when no source is found: the
\* exception is raised before the buffer is touched
BufferAfterNoSource(buf) == buf

\* get_default_monitor_source returns None: the exception is emitted,
\* re-raised and caught by MainWindow.start_real_time_analysis.
StartNoSource ==
  /\ mainPc = "idle"
  /\ Called
  /\ ~is_recording
  /\ audio_buffer' = BufferAfterNoSource(audio_buffer)
  /\ lastError' = "NoSource"
  /\ mainPc' = "raised"
  /\ UNCHANGED <<sample_rate, analysis_chunk_duration, overlap_duration,
                 buffer_lock, stream, is_recording, recording_thread,
                 mw_is_recording, queue, cbPc, loops, leakedActive,
                 nextSample, session, sessionFirst, lastSlice, slicers,
                 whisper_available, thresholds, filler_words, tmp_files,
                 anPc, cur, result, settings, audio_settings, form>>

\* a source was found: go on to clear the buffer
StartBegin ==
  /\ mainPc = "idle"
  /\ Called
  /\ ~is_recording
  /\ mainPc' = "start_lock"
  /\ UNCHANGED <<sample_rate, analysis_chunk_duration, overlap_duration,
                 audio_buffer, buffer_lock, stream, is_recording,
                 recording_thread, mw_is_recording, queue, cbPc, loops,
                 leakedActive, nextSample, lastError, session, sessionFirst,
                 lastSlice, slicers, whisper_available, thresholds,
                 filler_words, tmp_files, anPc, cur, result, settings,
                 audio_settings, form>>

StartAcquire ==
  /\ mainPc = "start_lock"
  /\ Acquire(MainThread)
  /\ mainPc' = "start_clear"
  /\ UNCHANGED <<sample_rate, analysis_chunk_duration, overlap_duration,
                 calls, audio_buffer, stream, is_recording,
                 recording_thread, mw_is_recording, queue, cbPc, loops,
                 leakedActive, nextSample, lastError, session, sessionFirst,
                 lastSlice, slicers, whisper_available, thresholds,
                 filler_words, tmp_files, anPc, cur, result, settings,
                 audio_settings, form>>

\* start_recording without the clearing of the buffer
ClearedBufferKept(buf) == buf

\* with self.buffer_lock: self.audio_buffer = np.array([])
ClearedBuffer(buf) == <<>>

StartClear ==
  /\ mainPc = "start_clear"
  /\ audio_buffer' = ClearedBuffer(audio_buffer)
  /\ Release(MainThread)
  /\ session' = session + 1
  /\ sessionFirst' = nextSample
  /\ slicers' = {}
  /\ lastSlice' = NoSlice
  /\ mainPc' = "start_open"
  /\ UNCHANGED <<sample_rate, analysis_chunk_duration, overlap_duration,
                 calls, stream, is_recording, recording_thread,
                 mw_is_recording, queue, cbPc, loops, leakedActive,
                 nextSample, lastError, whisper_available, thresholds,
                 filler_words, tmp_files, anPc, cur, result, settings,
                 audio_settings, form>>

\* self.stream = pyaudio_instance.open(...): a stream still referenced
\* from a failed stop loses its reference but keeps running
StartOpen ==
  /\ mainPc = "start_open"
  /\ stream' = "opened"
  /\ leakedActive' = (leakedActive \/ stream = "active")
  /\ mainPc' = "start_stream"
  /\ UNCHANGED <<sample_rate, analysis_chunk_duration, overlap_duration,
                 calls, audio_buffer, buffer_lock, is_recording,
                 recording_thread, mw_is_recording, queue, cbPc, loops,
                 nextSample, lastError, session, sessionFirst, lastSlice,
                 slicers, whisper_available, thresholds, filler_words,
                 tmp_files, anPc, cur, result, settings, audio_settings,
                 form>>

StartOpenRaises ==
  /\ mainPc = "start_open"
  /\ lastError' = "OpenFailed"
  /\ mainPc' = "raised"
  /\ UNCHANGED <<sample_rate, analysis_chunk_duration, overlap_duration,
                 calls, audio_buffer, buffer_lock, stream, is_recording,
                 recording_thread, mw_is_recording, queue, cbPc, loops,
                 leakedActive, nextSample, session, sessionFirst, lastSlice,
                 slicers, whisper_available, thresholds, filler_words,
                 tmp_files, anPc, cur, result, settings, audio_settings,
                 form>>

\* self.is_recording = True; self.stream.start_stream()
StartStream ==
  /\ mainPc = "start_stream"
  /\ is_recording' = TRUE
  /\ stream' = "active"
  /\ mainPc' = "start_thread"
  /\ UNCHANGED <<sample_rate, analysis_chunk_duration, overlap_duration,
                 calls, audio_buffer, buffer_lock, recording_thread,
                 mw_is_recording, queue, cbPc, loops, leakedActive,
                 nextSample, lastError, session, sessionFirst, lastSlice,
                 slicers, whisper_available, thresholds, filler_words,
                 tmp_files, anPc, cur, result, settings, audio_settings,
                 form>>

StartStreamRaises ==
  /\ mainPc = "start_stream"
  /\ is_recording' = TRUE
  /\ lastError' = "StartFailed"
  /\ mainPc' = "raised"
  /\ UNCHANGED <<sample_rate, analysis_chunk_duration, overlap_duration,
                 calls, audio_buffer, buffer_lock, stream, recording_thread,
                 mw_is_recording, queue, cbPc, loops, leakedActive,
                 nextSample, session, sessionFirst, lastSlice, slicers,
                 whisper_available, thresholds, filler_words, tmp_files,
                 anPc, cur, result, settings, audio_settings, form>>

\* the thread object start_recording creates and starts
StartedLoop == [UnbornLoop EXCEPT !.pc = "init"]

\* recording_thread = Thread(target=_process_audio_buffer); start();
\* start_recording returns and MainWindow sets is_recording = True
StartThread ==
  /\ mainPc = "start_thread"
  /\ recording_thread' = session
  /\ loops' = [loops EXCEPT ![session] = StartedLoop]
  /\ mw_is_recording' = TRUE
  /\ mainPc' = "idle"
  /\ UNCHANGED <<sample_rate, analysis_chunk_duration, overlap_duration,
                 calls, audio_buffer, buffer_lock, stream, is_recording,
                 queue, cbPc, leakedActive, nextSample, lastError, session,
                 sessionFirst, lastSlice, slicers, whisper_available,
                 thresholds, filler_words, tmp_files, anPc, cur, result,
                 settings, audio_settings, form>>

\* ------------------------------------------- AudioManager.stop_recording
\* stop_recording while not recording: "Not currently recording", plain
\* return; MainWindow.stop_real_time_analysis then clears its own flag.
StopNotRecording ==
  /\ mainPc = "idle"
  /\ Called
  /\ ~is_recording
  /\ mw_is_recording' = FALSE
  /\ UNCHANGED <<sample_rate, analysis_chunk_duration, overlap_duration,
                 audio_buffer, buffer_lock, stream, is_recording,
                 recording_thread, queue, mainPc, cbPc, loops, leakedActive,
                 nextSample, lastError, session, sessionFirst, lastSlice,
                 slicers, whisper_available, thresholds, filler_words,
                 tmp_files, anPc, cur, result, settings, audio_settings,
                 form>>

\* self.is_recording = False
StopBegin ==
  /\ mainPc = "idle"
  /\ Called
  /\ is_recording
  /\ is_recording' = FALSE
  /\ mainPc' = "stop_stream"
  /\ UNCHANGED <<sample_rate, analysis_chunk_duration, overlap_duration,
                 audio_buffer, buffer_lock, stream, recording_thread,
                 mw_is_recording, queue, cbPc, loops, leakedActive,
                 nextSample, lastError, session, sessionFirst, lastSlice,
                 slicers, whisper_available, thresholds, filler_words,
                 tmp_files, anPc, cur, result, settings, audio_settings,
                 form>>

\* the value of self.stream after stop_stream() and close(), by outcome:
\* both succeed, stop_stream raises, close raises.  The except clause of
\* stop_recording only logs and emits, it releases nothing.
StreamAfterStop(st, outcome) ==
  IF st = "None" THEN "None"
  ELSE IF outcome = "ok" THEN "None"
  ELSE IF outcome = "stop_raises" THEN st
  ELSE "stopped"

\* if self.stream: stop_stream(); close(); self.stream = None
\* (stop_stream waits for a callback in progress to return)
StopStream ==
  /\ mainPc = "stop_stream"
  /\ cbPc = "idle"
  /\ stream' = StreamAfterStop(stream, "ok")
  /\ mainPc' = "stop_join"
  /\ UNCHANGED <<sample_rate, analysis_chunk_duration, overlap_duration,
                 calls, audio_buffer, buffer_lock, is_recording,
                 recording_thread, mw_is_recording, queue, cbPc, loops,
                 leakedActive, nextSample, lastError, session, sessionFirst,
                 lastSlice, slicers, whisper_available, thresholds,
                 filler_words, tmp_files, anPc, cur, result, settings,
                 audio_settings, form>>

\* stop_stream() or close() raises: the handler logs and emits the error
StopStreamRaises(outcome) ==
  /\ mainPc = "stop_stream"
  /\ stream # "None"
  /\ cbPc = "idle"
  /\ stream' = StreamAfterStop(stream, outcome)
  /\ lastError' = "StopFailed"
  /\ mainPc' = "raised"
  /\ UNCHANGED <<sample_rate, analysis_chunk_duration, overlap_duration,
                 calls, audio_buffer, buffer_lock, is_recording,
                 recording_thread, mw_is_recording, queue, cbPc, loops,
                 leakedActive, nextSample, session, sessionFirst, lastSlice,
                 slicers, whisper_available, thresholds, filler_words,
                 tmp_files, anPc, cur, result, settings, audio_settings,
                 form>>

\* error_occurred and the except clauses of MainWindow end in
\* MainWindow.handle_error, a modal message box; when it is dismissed the
\* handler returns.  A failed start has raised and leaves
\* MainWindow.is_recording alone; a failed stop has returned normally from
\* stop_recording, and stop_real_time_analysis clears the flag.
HandleError ==
  /\ mainPc = "raised"
  /\ mw_is_recording' = (mw_is_recording /\ lastError # "StopFailed")
  /\ lastError' = "none"
  /\ mainPc' = "idle"
  /\ UNCHANGED <<sample_rate, analysis_chunk_duration, overlap_duration,
                 calls, audio_buffer, buffer_lock, stream, is_recording,
                 recording_thread, queue, cbPc, loops, leakedActive,
                 nextSample, session, sessionFirst, lastSlice, slicers,
                 whisper_available, thresholds, filler_words, tmp_files,
                 anPc, cur, result, settings, audio_settings, form>>

\* recording_thread.join(timeout=2.0): returns when the thread has ended
\* or, the thread still alive, when the timeout expires
StopJoin ==
  /\ mainPc = "stop_join"
  /\ mw_is_recording' = FALSE
  /\ mainPc' = "idle"
  /\ UNCHANGED <<sample_rate, analysis_chunk_duration, overlap_duration,
                 calls, audio_buffer, buffer_lock, stream, is_recording,
                 recording_thread, queue, cbPc, loops, leakedActive,
                 nextSample, lastError, session, sessionFirst, lastSlice,
                 slicers, whisper_available, thresholds, filler_words,
                 tmp_files, anPc, cur, result, settings, audio_settings,
                 form>>

\* ------------------------------------------ AudioManager.get_audio_level
\* get_audio_level reads the buffer inside with self.buffer_lock
LevelLock == Acquire(MainThread)

LevelAcquire ==
  /\ mainPc = "idle"
  /\ LevelLock
  /\ mainPc' = "level"
  /\ UNCHANGED <<sample_rate, analysis_chunk_duration, overlap_duration,
                 calls, audio_buffer, stream, is_recording,
                 recording_thread, mw_is_recording, queue, cbPc, loops,
                 leakedActive, nextSample, lastError, session, sessionFirst,
                 lastSlice, slicers, whisper_available, thresholds,
                 filler_words, tmp_files, anPc, cur, result, settings,
                 audio_settings, form>>

LevelRead ==
  /\ mainPc = "level"
  /\ Release(MainThread)
  /\ mainPc' = "idle"
  /\ UNCHANGED <<sample_rate, analysis_chunk_duration, overlap_duration,
                 calls, audio_buffer, stream, is_recording,
                 recording_thread, mw_is_recording, queue, cbPc, loops,
                 leakedActive, nextSample, lastError, session, sessionFirst,
                 lastSlice, slicers, whisper_available, thresholds,
                 filler_words, tmp_files, anPc, cur, result, settings,
                 audio_settings, form>>

\* ------------------------------------------ AudioManager._audio_callback
\* the frame the device hands to the callback: the next FrameLen samples
Frame(first) == [i \in 1..FrameLen |-> first + i - 1]

\* the callback takes the lock before it touches the buffer
CallbackLock == Acquire(CallbackThread)

\* PortAudio calls back while some stream is running
CallbackAcquire ==
  /\ cbPc = "idle"
  /\ stream = "active" \/ leakedActive
  /\ nextSample + FrameLen - 1 <= MaxSamples
  /\ CallbackLock
  /\ cbPc' = "append"
  /\ UNCHANGED <<sample_rate, analysis_chunk_duration, overlap_duration,
                 calls, audio_buffer, stream, is_recording,
                 recording_thread, mw_is_recording, queue, mainPc, loops,
                 leakedActive, nextSample, lastError, session, sessionFirst,
                 lastSlice, slicers, whisper_available, thresholds,
                 filler_words, tmp_files, anPc, cur, result, settings,
                 audio_settings, form>>

\* self.audio_buffer = np.append(self.audio_buffer, audio_data)
CallbackAppend ==
  /\ cbPc = "append"
  /\ audio_buffer' = audio_buffer \o Frame(nextSample)
  /\ nextSample' = nextSample + FrameLen
  /\ Release(CallbackThread)
  /\ cbPc' = "idle"
  /\ UNCHANGED <<sample_rate, analysis_chunk_duration, overlap_duration,
                 calls, stream, is_recording, recording_thread,
                 mw_is_recording, queue, mainPc, loops, leakedActive,
                 lastError, session, sessionFirst, lastSlice, slicers,
                 whisper_available, thresholds, filler_words, tmp_files,
                 anPc, cur, result, settings, audio_settings, form>>

\* ------------------------------------ AudioManager._process_audio_buffer
\* step_samples = analysis_chunk_samples - overlap_samples
StepSamples(chunkSamples, overlapSamples) == chunkSamples - overlapSamples

\* the three locals computed once, before the while loop;
\* last_emit_time = 0 lies more than the emit interval in the past
LoopInit(t) ==
  /\ loops[t].pc = "init"
  /\ LET n == DurationSamples(analysis_chunk_duration, sample_rate)
         o == DurationSamples(overlap_duration, sample_rate)
     IN loops' = [loops EXCEPT ![t].pc = "while",
                               ![t].analysis_chunk_samples = n,
                               ![t].overlap_samples = o,
                               ![t].step_samples = StepSamples(n, o),
                               ![t].sinceEmit = EmitInterval]
  /\ UNCHANGED <<sample_rate, analysis_chunk_duration, overlap_duration,
                 calls, audio_buffer, buffer_lock, stream, is_recording,
                 recording_thread, mw_is_recording, queue, mainPc, cbPc,
                 leakedActive, nextSample, lastError, session, sessionFirst,
                 lastSlice, slicers, whisper_available, thresholds,
                 filler_words, tmp_files, anPc, cur, result, settings,
                 audio_settings, form>>

\* the flag looked at only once the buffer holds less than a window
LoopExitWhenDrained(t) ==
  /\ loops[t].pc = "while"
  /\ ~is_recording
  /\ ~(Len(audio_buffer) >= loops[t].analysis_chunk_samples)
  /\ loops' = [loops EXCEPT ![t] = EndedLoop]
  /\ UNCHANGED <<sample_rate, analysis_chunk_duration, overlap_duration,
                 calls, audio_buffer, buffer_lock, stream, is_recording,
                 recording_thread, mw_is_recording, queue, mainPc, cbPc,
                 leakedActive, nextSample, lastError, session, sessionFirst,
                 lastSlice, slicers, whisper_available, thresholds,
                 filler_words, tmp_files, anPc, cur, result, settings,
                 audio_settings, form>>

\* while self.is_recording: left with the flag cleared, the thread ends
LoopExit(t) ==
  /\ loops[t].pc = "while"
  /\ ~is_recording
  /\ loops' = [loops EXCEPT ![t] = EndedLoop]
  /\ UNCHANGED <<sample_rate, analysis_chunk_duration, overlap_duration,
                 calls, audio_buffer, buffer_lock, stream, is_recording,
                 recording_thread, mw_is_recording, queue, mainPc, cbPc,
                 leakedActive, nextSample, lastError, session, sessionFirst,
                 lastSlice, slicers, whisper_available, thresholds,
                 filler_words, tmp_files, anPc, cur, result, settings,
                 audio_settings, form>>

\* the length read without waiting for the lock
LoopLenLockFree(t) == buffer_lock' = buffer_lock \cup {LoopThread(t)}

\* the loop thread takes the lock before it reads the buffer length
LoopLenLock(t) == Acquire(LoopThread(t))

\* while self.is_recording: with self.buffer_lock:
LoopLenAcquire(t) ==
  /\ loops[t].pc = "while"
  /\ is_recording
  /\ LoopLenLock(t)
  /\ loops' = [loops EXCEPT ![t].pc = "len"]
  /\ UNCHANGED <<sample_rate, analysis_chunk_duration, overlap_duration,
                 calls, audio_buffer, stream, is_recording,
                 recording_thread, mw_is_recording, queue, mainPc, cbPc,
                 leakedActive, nextSample, lastError, session, sessionFirst,
                 lastSlice, slicers, whisper_available, thresholds,
                 filler_words, tmp_files, anPc, cur, result, settings,
                 audio_settings, form>>

\* time.sleep(0.01) at the end of an iteration: d emit intervals have been
\* completed meanwhile; the count saturates at one interval
Slept(since, d) == Min(since + d, EmitInterval)

\* if buffer_length >= analysis_chunk_samples
EnoughData(bufferLength, chunkSamples) == bufferLength >= chunkSamples

\* buffer_length = len(self.audio_buffer); the lock is released; with too
\* few samples the iteration ends with the sleep
LoopLen(t, d) ==
  /\ loops[t].pc = "len"
  /\ Release(LoopThread(t))
  /\ IF EnoughData(Len(audio_buffer), loops[t].analysis_chunk_samples)
     THEN loops' = [loops EXCEPT ![t].pc = "slice_lock"]
     ELSE loops' = [loops EXCEPT ![t].pc = "while",
                                 ![t].sinceEmit = Slept(loops[t].sinceEmit, d)]
  /\ UNCHANGED <<sample_rate, analysis_chunk_duration, overlap_duration,
                 calls, audio_buffer, stream, is_recording,
                 recording_thread, mw_is_recording, queue, mainPc, cbPc,
                 leakedActive, nextSample, lastError, session, sessionFirst,
                 lastSlice, slicers, whisper_available, thresholds,
                 filler_words, tmp_files, anPc, cur, result, settings,
                 audio_settings, form>>

LoopSliceAcquire(t) ==
  /\ loops[t].pc = "slice_lock"
  /\ Acquire(LoopThread(t))
  /\ loops' = [loops EXCEPT ![t].pc = "slice"]
  /\ UNCHANGED <<sample_rate, analysis_chunk_duration, overlap_duration,
                 calls, audio_buffer, stream, is_recording,
                 recording_thread, mw_is_recording, queue, mainPc, cbPc,
                 leakedActive, nextSample, lastError, session, sessionFirst,
                 lastSlice, slicers, whisper_available, thresholds,
                 filler_words, tmp_files, anPc, cur, result, settings,
                 audio_settings, form>>

\* a window one sample short
SliceWindowShort(buf, chunkSamples) == PyPrefix(buf, chunkSamples - 1)

\* chunk = self.audio_buffer[:analysis_chunk_samples].copy()
SliceWindow(buf, chunkSamples) == PyPrefix(buf, chunkSamples)

\* the buffer advanced by one sample less than the step
RemainingBufferLag(buf, stepSamples) == PySuffix(buf, stepSamples - 1)

\* self.audio_buffer = self.audio_buffer[step_samples:]
RemainingBuffer(buf, stepSamples) == PySuffix(buf, stepSamples)

LoopSlice(t) ==
  /\ loops[t].pc = "slice"
  /\ LET w == SliceWindow(audio_buffer, loops[t].analysis_chunk_samples)
     IN /\ loops' = [loops EXCEPT ![t].pc = "emit",
                                  ![t].chunk = w,
                                  ![t].chunkSession = session]
        /\ lastSlice' = [win |-> w, by |-> t]
  /\ audio_buffer' = RemainingBuffer(audio_buffer, loops[t].step_samples)
  /\ slicers' = slicers \cup {t}
  /\ Release(LoopThread(t))
  /\ UNCHANGED <<sample_rate, analysis_chunk_duration, overlap_duration,
                 calls, stream, is_recording, recording_thread,
                 mw_is_recording, queue, mainPc, cbPc, leakedActive,
                 nextSample, lastError, session, sessionFirst,
                 whisper_available, thresholds, filler_words, tmp_files,
                 anPc, cur, result, settings, audio_settings, form>>

\* an exception inside the try block (the copy of the window cannot be
\* allocated): the lock is released by the with statement, the error is
\* emitted (a message box) and the loop breaks; is_recording is left as
\* it is
LoopRaises(t) ==
  /\ loops[t].pc = "slice"
  /\ Release(LoopThread(t))
  /\ loops' = [loops EXCEPT ![t] = EndedLoop]
  /\ UNCHANGED <<sample_rate, analysis_chunk_duration, overlap_duration,
                 calls, audio_buffer, stream, is_recording,
                 recording_thread, mw_is_recording, queue, mainPc, cbPc,
                 leakedActive, nextSample, lastError, session, sessionFirst,
                 lastSlice, slicers, whisper_available, thresholds,
                 filler_words, tmp_files, anPc, cur, result, settings,
                 audio_settings, form>>

\* if current_time - last_emit_time >= 0.1
EmitDue(since) == since >= EmitInterval

\* audio_data_ready.emit(chunk) when the emit interval has passed, else
\* the chunk is dropped; then time.sleep(0.01)
LoopEmit(t, d) ==
  /\ loops[t].pc = "emit"
  /\ IF EmitDue(loops[t].sinceEmit)
     THEN /\ Len(queue) < MaxQueue
          /\ queue' = Append(queue, [win |-> loops[t].chunk,
                                     sess |-> loops[t].chunkSession])
          /\ loops' = [loops EXCEPT ![t].pc = "while",
                                    ![t].chunk = NoChunk,
                                    ![t].chunkSession = 0,
                                    ![t].sinceEmit = Slept(0, d)]
     ELSE /\ queue' = queue
          /\ loops' = [loops EXCEPT ![t].pc = "while",
                                    ![t].chunk = NoChunk,
                                    ![t].chunkSession = 0,
                                    ![t].sinceEmit =
                                       Slept(loops[t].sinceEmit, d)]
  /\ UNCHANGED <<sample_rate, analysis_chunk_duration, overlap_duration,
                 calls, audio_buffer, buffer_lock, stream, is_recording,
                 recording_thread, mw_is_recording, mainPc, cbPc,
                 leakedActive, nextSample, lastError, session, sessionFirst,
                 lastSlice, slicers, whisper_available, thresholds,
                 filler_words, tmp_files, anPc, cur, result, settings,
                 audio_settings, form>>

\* --------------------------------------- MainWindow.process_audio_data
\* the queued audio_data_ready signal is handled by the main thread;
\* the window is passed to the analyzer only while MainWindow.is_recording
\* (the analysis itself is the subject of the analyzer specification)
ProcessAudioData ==
  /\ mainPc = "idle"
  /\ queue # <<>>
  /\ queue' = Tail(queue)
  /\ UNCHANGED <<sample_rate, analysis_chunk_duration, overlap_duration,
                 calls, audio_buffer, buffer_lock, stream, is_recording,
                 recording_thread, mw_is_recording, mainPc, cbPc, loops,
                 leakedActive, nextSample, lastError, session, sessionFirst,
                 lastSlice, slicers, whisper_available, thresholds,
                 filler_words, tmp_files, anPc, cur, result, settings,
                 audio_settings, form>>

\* ================================================= SpeechAnalyzer
\* analyze_audio is called without a sample rate (main_window.py) and so
\* uses its default, 16 kHz, the capture default
AnalysisRate == SampleRate

\* amplitudes of a window's samples (16-bit): silence and the two levels
\* on either side of the speech gate
Levels == {0, 327, 328}

RECURSIVE WindowsOfLen(_)
WindowsOfLen(n) ==
  IF n = 0 THEN {<<>>}
  ELSE {Append(w, a) : w \in WindowsOfLen(n - 1), a \in Levels}

Windows == UNION {WindowsOfLen(n) : n \in 0..MaxWindowLen}

AllZero(audio) == \A i \in 1..Len(audio) : audio[i] = 0

\* tokens of a transcribed line: a filler as the engine capitalises it,
\* a word and punctuation
Vocabulary == {"Um", "sales", "..."}

RECURSIVE TextsOfLen(_)
TextsOfLen(n) ==
  IF n = 0 THEN {<<>>}
  ELSE {Append(t, w) : t \in TextsOfLen(n - 1), w \in Vocabulary}

\* the non-empty texts the engine can print
Texts == UNION {TextsOfLen(n) : n \in 1..MaxWords}

\* a line of the engine's standard output
TextLine(t) == [kind |-> "text", text |-> t]
MetaLine == [kind |-> "meta", text |-> <<>>]
BlankLine == [kind |-> "blank", text |-> <<>>]

Stdouts ==
  {<<>>, <<MetaLine>>, <<BlankLine>>}
    \cup {<<TextLine(t)>> : t \in Texts}
    \cup {<<m, TextLine(t)>> : m \in {MetaLine, BlankLine}, t \in Texts}
    \cup {<<TextLine(t), MetaLine>> : t \in Texts}

\* what running the engine on the temporary file can do
EngineOutcomes ==
  {[kind |-> k, stdout |-> <<>>] :
     k \in {"write_raises", "run_raises", "timeout", "nonzero"}}
    \cup {[kind |-> "ok", stdout |-> s] : s \in Stdouts}

\* what the pitch tracker finds in a window
ToneInputs ==
  {[kind |-> k, pitch_std |-> 0] : k \in {"raises", "unvoiced"}}
    \cup {[kind |-> "voiced", pitch_std |-> s] :
            s \in {0, 49, 50, 150, 151}}

\* what the spectral features of a window are
ClarityInputs ==
  {[kind |-> "raises", spectral_centroid_mean |-> 0, mfcc_variance |-> 0]}
    \cup {[kind |-> "ok", spectral_centroid_mean |-> c, mfcc_variance |-> v] :
            c \in {1000, 2000, 3000}, v \in {50, 100}}

\* the mean and deviation of the frame energies, in thousandths
VolumeInputs ==
  {[kind |-> k, rms_mean |-> 0, rms_std |-> 0] : k \in {"raises", "no_frames"}}
    \cup {[kind |-> "ok", rms_mean |-> 0, rms_std |-> 0]}
    \cup {[kind |-> "ok", rms_mean |-> 100, rms_std |-> s] :
            s \in {0, 30, 31, 200}}

\* ---------------------------------------------------------- dictionaries
EmptyDict == [x \in {} |-> 0]

Get(dict, key, default) ==
  IF key \in DOMAIN dict THEN dict[key] ELSE default

\* ------------------------------------------------ SpeechAnalyzer.__init__
DefaultThresholds ==
  [pitch_variance_good |-> <<50, 150>>,
   speaking_rate_good |-> <<150, 200>>,
   volume_consistency_good |-> 80,
   filler_words_threshold |-> 5]

DefaultFillerWords ==
  {"um", "uh", "er", "ah", "like", "you know", "so", "well",
   "actually", "basically", "literally", "seriously", "totally"}

ZeroScores ==
  [overall |-> 0, tone |-> 0, clarity |-> 0, volume |-> 0, fluency |-> 0]

\* the results dictionary analyze_audio starts from
InitialResults(audio) ==
  [duration |-> Len(audio),
   transcription |-> <<>>,
   metrics |-> [tone |-> EmptyDict, clarity |-> EmptyDict,
                volume |-> EmptyDict, fillers |-> EmptyDict,
                rate |-> EmptyDict],
   scores |-> ZeroScores,
   alerts |-> <<>>,
   error |-> ""]

\* no analysis in progress, nothing returned yet
NoAnalysis ==
  [allZero |-> FALSE, passedGate |-> FALSE, engine |-> "none",
   called |-> {}, failed |-> {}, results |-> InitialResults(<<>>)]

NoResult == [NoAnalysis EXCEPT !.engine = "no_result"]

AnalyzerConstructed(available) ==
  /\ whisper_available = available
  /\ thresholds = DefaultThresholds
  /\ filler_words = DefaultFillerWords
  /\ tmp_files = 0
  /\ anPc = "idle"
  /\ cur = NoAnalysis
  /\ result = NoResult

\* the analyzer after the settings form has been saved with an 'analysis'
\* section, no window being analysed
AnalyzerConfigured(available, analysis) ==
  /\ whisper_available = available
  /\ thresholds = StoredThresholds(DefaultThresholds, analysis)
  /\ filler_words = StoredFillerWords(DefaultFillerWords, analysis)
  /\ settings = analysis
  /\ tmp_files = 0
  /\ anPc = "idle"
  /\ cur = NoAnalysis
  /\ result = NoResult

\* ------------------------------------------------------------ _has_speech
RECURSIVE SumSquares(_)
SumSquares(audio) ==
  IF audio = <<>> THEN 0
  ELSE Head(audio) * Head(audio) + SumSquares(Tail(audio))

\* the gate removed: every window is analysed
HasSpeechUngated(audio) == TRUE

\* rms > 0.01 of full scale: mean(a^2) > 0.0001 * 32767^2 = 107367.6289;
\* the mean of an empty window is not a number and compares false
HasSpeech(audio) ==
  /\ Len(audio) > 0
  /\ SumSquares(audio) >
       Len(audio) * 107367 + (Len(audio) * 6289) \div 10000

\* ------------------------------------------------------ _transcribe_audio
\* the first line of the output that is neither empty nor engine chatter
RECURSIVE FirstText(_)
FirstText(lines) ==
  IF lines = <<>> THEN <<>>
  ELSE IF Head(lines).kind = "text" THEN Head(lines).text
  ELSE FirstText(Tail(lines))

\* the text returned for an outcome of the engine
TranscriptionOf(outcome) ==
  IF outcome.kind = "ok" THEN FirstText(outcome.stdout) ELSE <<>>

\* the temporary file is removed only after the engine has returned
LeavesTmpFile(outcome) ==
  outcome.kind \in {"write_raises", "run_raises", "timeout"}

\* ---------------------------------------------------------- _analyze_tone
\* the good range taken without its bounds
ToneMetricsStrict(input, thr) ==
  IF input.kind \in {"raises", "unvoiced"}
  THEN [pitch_std |-> 0, score |-> 0]
  ELSE [pitch_std |-> input.pitch_std,
        score |-> IF input.pitch_std <= thr.pitch_variance_good[1] THEN 50
                  ELSE IF input.pitch_std >= thr.pitch_variance_good[2] THEN 70
                  ELSE 100]

ToneMetrics(input, thr) ==
  IF input.kind \in {"raises", "unvoiced"}
  THEN [pitch_std |-> 0, score |-> 0]
  ELSE [pitch_std |-> input.pitch_std,
        score |-> IF input.pitch_std < thr.pitch_variance_good[1] THEN 50
                  ELSE IF input.pitch_std > thr.pitch_variance_good[2] THEN 70
                  ELSE 100]

\* ------------------------------------------------------- _analyze_clarity
\* int((min(c / 2000, 1) * 0.6 + min(v / 100, 1) * 0.4) * 100)
ClarityMetrics(input) ==
  IF input.kind = "raises"
  THEN [spectral_centroid_mean |-> 0, score |-> 0]
  ELSE [spectral_centroid_mean |-> input.spectral_centroid_mean,
        mfcc_variance |-> input.mfcc_variance,
        score |-> (3 * Min(input.spectral_centroid_mean, 2000)
                     + 40 * Min(input.mfcc_variance, 100)) \div 100]

\* -------------------------------------------------------- _analyze_volume
\* the except clause of _analyze_volume keeping a perfect score
VolumeMetricsStale(input) ==
  [rms_mean |-> 0, rms_std |-> 0, score |-> 100]

\* int((1 - min(std / mean, 1)) * 100)
VolumeMetrics(input) ==
  IF input.kind \in {"raises", "no_frames"}
  THEN [rms_mean |-> 0, rms_std |-> 0, score |-> 0]
  ELSE [rms_mean |-> input.rms_mean,
        rms_std |-> input.rms_std,
        score |-> IF input.rms_mean > 0
                  THEN (100 * (input.rms_mean
                                 - Min(input.rms_std, input.rms_mean)))
                         \div input.rms_mean
                  ELSE 0]

\* ------------------------------------------------------- _analyze_fillers
\* re.findall(r'\b\w+\b', ...): the word tokens of a text
IsWord(token) == token # "..."
Words(text) == SelectSeq(text, IsWord)

Lower(token) == IF token = "Um" THEN "um" ELSE token

RECURSIVE FillerCount(_, _)
FillerCount(words, fillers) ==
  IF words = <<>> THEN 0
  ELSE (IF Lower(Head(words)) \in fillers THEN 1 ELSE 0)
         + FillerCount(Tail(words), fillers)

\* the score of a high filler ratio without its floor at 0
FillerMetricsUnfloored(transcription, fillers, thr) ==
  LET words == Words(transcription)
      total == Len(words)
      count == FillerCount(words, fillers)
  IN  IF transcription = <<>> \/ total = 0
      THEN [count |-> 0, ratio |-> <<0, 1>>, score |-> 100]
      ELSE [count |-> count,
            ratio |-> <<count, total>>,
            score |-> IF 100 * count <= thr.filler_words_threshold * total
                      THEN 100
                      ELSE (100 * total - 1000 * count) \div total]

\* the ratio is kept as the pair <<count, total>>, the threshold in percent
FillerMetrics(transcription, fillers, thr) ==
  LET words == Words(transcription)
      total == Len(words)
      count == FillerCount(words, fillers)
  IN  IF transcription = <<>> \/ total = 0
      THEN [count |-> 0, ratio |-> <<0, 1>>, score |-> 100]
      ELSE [count |-> count,
            ratio |-> <<count, total>>,
            score |-> IF 100 * count <= thr.filler_words_threshold * total
                      THEN 100
                      ELSE Max(0, (100 * total - 1000 * count) \div total)]

\* what the except clause of _analyze_fillers returns
FillersFailed == [count |-> 0, ratio |-> <<0, 1>>, score |-> 0]

\* ------------------------------------------------- _analyze_speaking_rate
\* what the except clause of _analyze_speaking_rate returns
RateFailed == [words_per_minute |-> <<0, 1>>, word_count |-> 0, score |-> 0]

\* the score of a fast speaker without its floor at 0
RateMetricsUnfloored(transcription, samples, rate, thr) ==
  LET word_count == Len(Words(transcription))
      num == word_count * 60 * rate
      lo == thr.speaking_rate_good[1]
      hi == thr.speaking_rate_good[2]
  IN  IF transcription = <<>> \/ samples <= 0
      THEN [words_per_minute |-> <<0, 1>>, score |-> 0]
      ELSE [words_per_minute |-> <<num, samples>>,
            word_count |-> word_count,
            score |-> IF lo * samples <= num /\ num <= hi * samples
                      THEN 100
                      ELSE IF num < lo * samples
                      THEN (100 * num) \div (lo * samples)
                      ELSE (200 * samples - (num - hi * samples))
                             \div (2 * samples)]

\* words per minute are kept as the fraction <<words * 60 * rate, samples>>
RateMetrics(transcription, samples, rate, thr) ==
  LET word_count == Len(Words(transcription))
      num == word_count * 60 * rate
      lo == thr.speaking_rate_good[1]
      hi == thr.speaking_rate_good[2]
  IN  IF transcription = <<>> \/ samples <= 0
      THEN [words_per_minute |-> <<0, 1>>, score |-> 0]
      ELSE [words_per_minute |-> <<num, samples>>,
            word_count |-> word_count,
            score |-> IF lo * samples <= num /\ num <= hi * samples
                      THEN 100
                      ELSE IF num < lo * samples
                      THEN Max(0, (100 * num) \div (lo * samples))
                      ELSE Max(0, (200 * samples - (num - hi * samples))
                                    \div (2 * samples))]

\* ------------------------------------------------------ _calculate_scores
\* a metric that was not computed counts as a perfect score
CalculateScoresLenient(metrics) ==
  LET tone == Get(metrics.tone, "score", 0)
      clarity == Get(metrics.clarity, "score", 0)
      volume == Get(metrics.volume, "score", 0)
      fluency == (Get(metrics.fillers, "score", 100)
                    + Get(metrics.rate, "score", 100)) \div 2
  IN  [tone |-> tone, clarity |-> clarity, volume |-> volume,
       fluency |-> fluency,
       overall |-> (5 * tone + 5 * clarity + 4 * volume + 6 * fluency)
                     \div 20]

\* the four sub-scores weighted equally
CalculateScoresEqualWeights(metrics) ==
  LET tone == Get(metrics.tone, "score", 0)
      clarity == Get(metrics.clarity, "score", 0)
      volume == Get(metrics.volume, "score", 0)
      fluency == (Get(metrics.fillers, "score", 0)
                    + Get(metrics.rate, "score", 0)) \div 2
  IN  [tone |-> tone, clarity |-> clarity, volume |-> volume,
       fluency |-> fluency,
       overall |-> (tone + clarity + volume + fluency) \div 4]

\* int(tone * 0.25 + clarity * 0.25 + volume * 0.2 + fluency * 0.3)
CalculateScores(metrics) ==
  LET tone == Get(metrics.tone, "score", 0)
      clarity == Get(metrics.clarity, "score", 0)
      volume == Get(metrics.volume, "score", 0)
      fluency == (Get(metrics.fillers, "score", 0)
                    + Get(metrics.rate, "score", 0)) \div 2
  IN  [tone |-> tone, clarity |-> clarity, volume |-> volume,
       fluency |-> fluency,
       overall |-> (5 * tone + 5 * clarity + 4 * volume + 6 * fluency)
                     \div 20]

\* ------------------------------------------------------- _generate_alerts
Alert(text) == [text |-> text, arg |-> 0]

\* the ratio as a whole percentage, in tenths of a percent
PercentWhole(ratio) ==
  10 * ((200 * ratio[1] + ratio[2]) \div (2 * ratio[2]))

\* the ratio as a percentage with one decimal, in tenths of a percent
PercentTenths(ratio) == (2000 * ratio[1] + ratio[2]) \div (2 * ratio[2])

\* the speaking-rate rules without the test wpm > 0
GenerateAlertsUnguarded(metrics, scores, thr) ==
  LET filler_ratio == Get(metrics.fillers, "ratio", <<0, 1>>)
      wpm == Get(metrics.rate, "words_per_minute", <<0, 1>>)
  IN  (IF scores.tone < 70
       THEN <<Alert("Consider varying your pitch more for natural prosody")>>
       ELSE <<>>)
      \o (IF scores.clarity < 70
          THEN <<Alert("Focus on clear articulation and enunciation")>>
          ELSE <<>>)
      \o (IF scores.volume < 70
          THEN <<Alert("Try to maintain consistent volume levels")>>
          ELSE <<>>)
      \o (IF 100 * filler_ratio[1] > thr.filler_words_threshold * filler_ratio[2]
          THEN <<[text |-> "Reduce filler words",
                  arg |-> PercentTenths(filler_ratio)]>>
          ELSE <<>>)
      \o (IF wpm[1] < thr.speaking_rate_good[1] * wpm[2]
          THEN <<Alert("Consider speaking a bit faster for better engagement")>>
          ELSE IF wpm[1] > thr.speaking_rate_good[2] * wpm[2]
          THEN <<Alert("Consider slowing down for better clarity")>>
          ELSE <<>>)

\* the rules chained with elif: only the first matching alert is kept
GenerateAlertsFirstOnly(metrics, scores, thr) ==
  LET filler_ratio == Get(metrics.fillers, "ratio", <<0, 1>>)
      wpm == Get(metrics.rate, "words_per_minute", <<0, 1>>)
  IN  IF scores.tone < 70
      THEN <<Alert("Consider varying your pitch more for natural prosody")>>
      ELSE IF scores.clarity < 70
      THEN <<Alert("Focus on clear articulation and enunciation")>>
      ELSE IF scores.volume < 70
      THEN <<Alert("Try to maintain consistent volume levels")>>
      ELSE IF 100 * filler_ratio[1]
                > thr.filler_words_threshold * filler_ratio[2]
      THEN <<[text |-> "Reduce filler words",
              arg |-> PercentTenths(filler_ratio)]>>
      ELSE IF wpm[1] > 0 /\ wpm[1] < thr.speaking_rate_good[1] * wpm[2]
      THEN <<Alert("Consider speaking a bit faster for better engagement")>>
      ELSE IF wpm[1] > 0 /\ wpm[1] > thr.speaking_rate_good[2] * wpm[2]
      THEN <<Alert("Consider slowing down for better clarity")>>
      ELSE <<>>

GenerateAlerts(metrics, scores, thr) ==
  LET filler_ratio == Get(metrics.fillers, "ratio", <<0, 1>>)
      wpm == Get(metrics.rate, "words_per_minute", <<0, 1>>)
  IN  (IF scores.tone < 70
       THEN <<Alert("Consider varying your pitch more for natural prosody")>>
       ELSE <<>>)
      \o (IF scores.clarity < 70
          THEN <<Alert("Focus on clear articulation and enunciation")>>
          ELSE <<>>)
      \o (IF scores.volume < 70
          THEN <<Alert("Try to maintain consistent volume levels")>>
          ELSE <<>>)
      \o (IF 100 * filler_ratio[1] > thr.filler_words_threshold * filler_ratio[2]
          THEN <<[text |-> "Reduce filler words",
                  arg |-> PercentTenths(filler_ratio)]>>
          ELSE <<>>)
      \o (IF wpm[1] > 0 /\ wpm[1] < thr.speaking_rate_good[1] * wpm[2]
          THEN <<Alert("Consider speaking a bit faster for better engagement")>>
          ELSE IF wpm[1] > 0 /\ wpm[1] > thr.speaking_rate_good[2] * wpm[2]
          THEN <<Alert("Consider slowing down for better clarity")>>
          ELSE <<>>)

\* ---------------------------------------------------------- analyze_audio
\* the call and the speech gate: a window without speech is returned as
\* the initial results
AnalyzeAudio(audio) ==
  /\ anPc = "idle"
  /\ result = NoResult
  /\ LET started == [allZero |-> AllZero(audio),
                     passedGate |-> HasSpeech(audio),
                     engine |-> "none", called |-> {}, failed |-> {},
                     results |-> InitialResults(audio)]
     IN  IF HasSpeech(audio)
         THEN /\ cur' = started
              /\ result' = NoResult
              /\ anPc' = "transcribe"
         ELSE /\ cur' = NoAnalysis
              /\ result' = started
              /\ anPc' = "publish"
  /\ UNCHANGED <<sample_rate, analysis_chunk_duration, overlap_duration,
                 calls, audio_buffer, buffer_lock, stream, is_recording,
                 recording_thread, mw_is_recording, queue, mainPc, cbPc,
                 loops, leakedActive, nextSample, lastError, session,
                 sessionFirst, lastSlice, slicers, whisper_available,
                 thresholds, filler_words, tmp_files, settings,
                 audio_settings, form>>

\* -------------------------------------------------------- _empty_result
\* str(e) of an exception caught by the handler of analyze_audio
ErrorMessages == {"", "no attribute astype"}

\* the message of the alert is the 'error' entry of the result
EmptyResult(error) ==
  [duration |-> 0,
   transcription |-> <<>>,
   metrics |-> EmptyDict,
   scores |-> ZeroScores,
   alerts |-> IF error # "" THEN <<Alert("Analysis error")>> ELSE <<>>,
   error |-> error]

\* analyze_audio is handed something that cannot be converted to float
\* samples: the conversion raises before the gate, the handler of
\* analyze_audio returns the error result
AnalyzeAudioRaises(error) ==
  /\ anPc = "idle"
  /\ result = NoResult
  /\ result' = [NoAnalysis EXCEPT !.engine = "raised",
                                  !.results = EmptyResult(error)]
  /\ anPc' = "publish"
  /\ UNCHANGED <<sample_rate, analysis_chunk_duration, overlap_duration,
                 calls, audio_buffer, buffer_lock, stream, is_recording,
                 recording_thread, mw_is_recording, queue, mainPc, cbPc,
                 loops, leakedActive, nextSample, lastError, session,
                 sessionFirst, lastSlice, slicers, whisper_available,
                 thresholds, filler_words, tmp_files, cur, settings,
                 audio_settings, form>>

\* _transcribe_audio without a configured engine returns at once
TranscribeUnavailable ==
  /\ anPc = "transcribe"
  /\ ~whisper_available
  /\ cur' = [cur EXCEPT !.engine = "unavailable"]
  /\ anPc' = "tone"
  /\ UNCHANGED <<sample_rate, analysis_chunk_duration, overlap_duration,
                 calls, audio_buffer, buffer_lock, stream, is_recording,
                 recording_thread, mw_is_recording, queue, mainPc, cbPc,
                 loops, leakedActive, nextSample, lastError, session,
                 sessionFirst, lastSlice, slicers, whisper_available,
                 thresholds, filler_words, tmp_files, result, settings,
                 audio_settings, form>>

\* _transcribe_audio writes the window to a temporary file and runs the
\* engine on it
TranscribeAudio(outcome) ==
  /\ anPc = "transcribe"
  /\ whisper_available
  /\ LeavesTmpFile(outcome) => tmp_files < MaxTmpFiles
  /\ tmp_files' = IF LeavesTmpFile(outcome) THEN tmp_files + 1 ELSE tmp_files
  /\ cur' = [cur EXCEPT
               !.engine = outcome.kind,
               !.called = @ \cup (IF outcome.kind = "write_raises"
                                  THEN {} ELSE {"engine"}),
               !.results.transcription = TranscriptionOf(outcome)]
  /\ anPc' = "tone"
  /\ UNCHANGED <<sample_rate, analysis_chunk_duration, overlap_duration,
                 calls, audio_buffer, buffer_lock, stream, is_recording,
                 recording_thread, mw_is_recording, queue, mainPc, cbPc,
                 loops, leakedActive, nextSample, lastError, session,
                 sessionFirst, lastSlice, slicers, whisper_available,
                 thresholds, filler_words, result, settings, audio_settings,
                 form>>

AnalyzeTone(input) ==
  /\ anPc = "tone"
  /\ cur' = [cur EXCEPT
               !.called = @ \cup {"tone"},
               !.failed = @ \cup (IF input.kind = "raises" THEN {"tone"}
                                  ELSE {}),
               !.results.metrics.tone = ToneMetrics(input, thresholds)]
  /\ anPc' = "clarity"
  /\ UNCHANGED <<sample_rate, analysis_chunk_duration, overlap_duration,
                 calls, audio_buffer, buffer_lock, stream, is_recording,
                 recording_thread, mw_is_recording, queue, mainPc, cbPc,
                 loops, leakedActive, nextSample, lastError, session,
                 sessionFirst, lastSlice, slicers, whisper_available,
                 thresholds, filler_words, tmp_files, result, settings,
                 audio_settings, form>>

AnalyzeClarity(input) ==
  /\ anPc = "clarity"
  /\ cur' = [cur EXCEPT
               !.called = @ \cup {"clarity"},
               !.failed = @ \cup (IF input.kind = "raises" THEN {"clarity"}
                                  ELSE {}),
               !.results.metrics.clarity = ClarityMetrics(input)]
  /\ anPc' = "volume"
  /\ UNCHANGED <<sample_rate, analysis_chunk_duration, overlap_duration,
                 calls, audio_buffer, buffer_lock, stream, is_recording,
                 recording_thread, mw_is_recording, queue, mainPc, cbPc,
                 loops, leakedActive, nextSample, lastError, session,
                 sessionFirst, lastSlice, slicers, whisper_available,
                 thresholds, filler_words, tmp_files, result, settings,
                 audio_settings, form>>

AnalyzeVolume(input) ==
  /\ anPc = "volume"
  /\ cur' = [cur EXCEPT
               !.called = @ \cup {"volume"},
               !.failed = @ \cup (IF input.kind = "raises" THEN {"volume"}
                                  ELSE {}),
               !.results.metrics.volume = VolumeMetrics(input)]
  /\ anPc' = "text"
  /\ UNCHANGED <<sample_rate, analysis_chunk_duration, overlap_duration,
                 calls, audio_buffer, buffer_lock, stream, is_recording,
                 recording_thread, mw_is_recording, queue, mainPc, cbPc,
                 loops, leakedActive, nextSample, lastError, session,
                 sessionFirst, lastSlice, slicers, whisper_available,
                 thresholds, filler_words, tmp_files, result, settings,
                 audio_settings, form>>

\* the extractors of the text that can raise inside their try block
TextFaults == SUBSET {"fillers", "rate"}

\* the rest of analyze_audio: fillers and rate of a non-empty
\* transcription, the scores, the alerts and the return
AnalyzeText(faults) ==
  /\ anPc = "text"
  /\ cur.results.transcription = <<>> => faults = {}
  /\ LET r == cur.results
         spoken == r.transcription # <<>>
         metrics ==
           IF spoken
           THEN [r.metrics EXCEPT
                   !.fillers = IF "fillers" \in faults THEN FillersFailed
                               ELSE FillerMetrics(r.transcription,
                                                  filler_words, thresholds),
                   !.rate = IF "rate" \in faults THEN RateFailed
                            ELSE RateMetrics(r.transcription, r.duration,
                                             AnalysisRate, thresholds)]
           ELSE r.metrics
         scores == CalculateScores(metrics)
     IN  result' = [cur EXCEPT
                      !.called = @ \cup (IF spoken THEN {"fillers", "rate"}
                                         ELSE {}),
                      !.failed = @ \cup faults,
                      !.results.metrics = metrics,
                      !.results.scores = scores,
                      !.results.alerts =
                         GenerateAlerts(metrics, scores, thresholds)]
  /\ cur' = NoAnalysis
  /\ anPc' = "publish"
  /\ UNCHANGED <<sample_rate, analysis_chunk_duration, overlap_duration,
                 calls, audio_buffer, buffer_lock, stream, is_recording,
                 recording_thread, mw_is_recording, queue, mainPc, cbPc,
                 loops, leakedActive, nextSample, lastError, session,
                 sessionFirst, lastSlice, slicers, whisper_available,
                 thresholds, filler_words, tmp_files, settings,
                 audio_settings, form>>

\* process_audio_data hands the snapshot to the widgets and returns
PublishResult ==
  /\ anPc = "publish"
  /\ result' = NoResult
  /\ anPc' = "idle"
  /\ UNCHANGED <<sample_rate, analysis_chunk_duration, overlap_duration,
                 calls, audio_buffer, buffer_lock, stream, is_recording,
                 recording_thread, mw_is_recording, queue, mainPc, cbPc,
                 loops, leakedActive, nextSample, lastError, session,
                 sessionFirst, lastSlice, slicers, whisper_available,
                 thresholds, filler_words, tmp_files, cur, settings,
                 audio_settings, form>>

\* ---------------------------------------------------------- specification
SleepTicks == {0, EmitInterval}

Init ==
  /\ AudioInit
  /\ AnalyzerConstructed(FALSE)
  /\ settings = DefaultAnalysis
  /\ WidgetConstructed

Next ==
  \/ \E c \in 1..MaxChunkSeconds, o \in 0..MaxOverlapSeconds :
       \E analysis \in AnalysisForms : UpdateSettings(c, o, analysis)
  \/ StartAlreadyRecording
  \/ StartNoSource
  \/ StartBegin
  \/ StartAcquire
  \/ StartClear
  \/ StartOpen
  \/ StartOpenRaises
  \/ StartStream
  \/ StartStreamRaises
  \/ StartThread
  \/ StopNotRecording
  \/ StopBegin
  \/ StopStream
  \/ \E outcome \in {"stop_raises", "close_raises"} : StopStreamRaises(outcome)
  \/ StopJoin
  \/ HandleError
  \/ LevelAcquire
  \/ LevelRead
  \/ CallbackAcquire
  \/ CallbackAppend
  \/ ProcessAudioData
  \/ \E t \in LoopIds :
       \/ LoopInit(t)
       \/ LoopExit(t)
       \/ LoopLenAcquire(t)
       \/ \E d \in SleepTicks : LoopLen(t, d)
       \/ LoopSliceAcquire(t)
       \/ LoopSlice(t)
       \/ LoopRaises(t)
       \/ \E d \in SleepTicks : LoopEmit(t, d)

Spec == Init /\ [][Next]_vars

\* the analyzer on its own: the windows it is given are drawn from Windows
InitAnalyzer ==
  /\ AudioIdle
  /\ \E available \in BOOLEAN, analysis \in AnalysisForms :
       /\ AnalyzerConfigured(available, analysis)
       /\ WidgetAfter(analysis)

NextAnalyzer ==
  \/ \E audio \in Windows : AnalyzeAudio(audio)
  \/ \E error \in ErrorMessages : AnalyzeAudioRaises(error)
  \/ TranscribeUnavailable
  \/ \E outcome \in EngineOutcomes : TranscribeAudio(outcome)
  \/ \E input \in ToneInputs : AnalyzeTone(input)
  \/ \E input \in ClarityInputs : AnalyzeClarity(input)
  \/ \E input \in VolumeInputs : AnalyzeVolume(input)
  \/ \E faults \in TextFaults : AnalyzeText(faults)
  \/ PublishResult

SpecAnalyzer == InitAnalyzer /\ [][NextAnalyzer]_vars

\* the text stage on its own: analyze_audio has transcribed a window and
\* run the three audio extractors, and goes on with a transcription of up
\* to MaxTokens tokens
TextStageTexts == UNION {TextsOfLen(n) : n \in 1..MaxTokens}

\* extractor inputs whose scores lie on either side of the alert limit
TextStageTone ==
  {i \in ToneInputs : i.kind = "voiced" /\ i.pitch_std \in {49, 151}}

TextStageClarity ==
  {i \in ClarityInputs : i.kind = "ok" /\ i.spectral_centroid_mean = 1000}

TextStageVolume ==
  {i \in VolumeInputs : i.kind = "ok" /\ i.rms_std \in {30, 31}}

\* analyze_audio after _analyze_volume has returned
AtTextStage(text, samples, tone, clarity, volume) ==
  /\ anPc = "text"
  /\ result = NoResult
  /\ cur = [allZero |-> FALSE, passedGate |-> TRUE, engine |-> "ok",
            called |-> {"engine", "tone", "clarity", "volume"},
            failed |-> {},
            results |->
              [duration |-> samples,
               transcription |-> text,
               metrics |-> [tone |-> ToneMetrics(tone, thresholds),
                            clarity |-> ClarityMetrics(clarity),
                            volume |-> VolumeMetrics(volume),
                            fillers |-> EmptyDict,
                            rate |-> EmptyDict],
               scores |-> ZeroScores,
               alerts |-> <<>>,
               error |-> ""]]

InitText ==
  /\ AudioIdle
  /\ whisper_available = TRUE
  /\ tmp_files = 0
  /\ \E analysis \in AnalysisForms :
       /\ settings = analysis
       /\ WidgetAfter(analysis)
       /\ thresholds = StoredThresholds(DefaultThresholds, analysis)
       /\ filler_words = StoredFillerWords(DefaultFillerWords, analysis)
  /\ \E text \in TextStageTexts, samples \in 1..MaxWindowLen,
        tone \in TextStageTone, clarity \in TextStageClarity,
        volume \in TextStageVolume :
       AtTextStage(text, samples, tone, clarity, volume)

NextText ==
  \/ \E faults \in TextFaults : AnalyzeText(faults)
  \/ PublishResult

SpecText == InitText /\ [][NextText]_vars

\* the speaking-rate stage on its own: transcriptions of up to
\* MaxRateWords words, and one of punctuation only
RateTexts ==
  {<<"...">>} \cup {[i \in 1..n |-> "sales"] : n \in 1..MaxRateWords}

InitRate ==
  /\ AudioIdle
  /\ whisper_available = TRUE
  /\ tmp_files = 0
  /\ \E analysis \in AnalysisForms :
       /\ settings = analysis
       /\ WidgetAfter(analysis)
       /\ thresholds = StoredThresholds(DefaultThresholds, analysis)
       /\ filler_words = StoredFillerWords(DefaultFillerWords, analysis)
  /\ \E text \in RateTexts, samples \in 1..MaxWindowLen,
        tone \in TextStageTone, clarity \in TextStageClarity,
        volume \in TextStageVolume :
       AtTextStage(text, samples, tone, clarity, volume)

SpecRate == InitRate /\ [][NextText]_vars

\* the application as it runs: get_audio_level has no caller in it.  The
\* loop threads, the capture callback and the main thread, once inside a
\* call, keep being scheduled; when the user starts, stops and saves a
\* chunk duration of one second is left free.
LoopStep(t) ==
  \/ LoopInit(t)
  \/ LoopExit(t)
  \/ LoopLenAcquire(t)
  \/ \E d \in SleepTicks : LoopLen(t, d)
  \/ LoopSliceAcquire(t)
  \/ LoopSlice(t)
  \/ \E d \in SleepTicks : LoopEmit(t, d)

MainStep ==
  \/ StartAcquire
  \/ StartClear
  \/ StartOpen
  \/ StartStream
  \/ StartThread
  \/ StopStream
  \/ StopJoin
  \/ HandleError
  \/ ProcessAudioData

NextCancel ==
  \/ UpdateSettings(1, 0, DefaultAnalysis)
  \/ StartAlreadyRecording
  \/ StartNoSource
  \/ StartBegin
  \/ StartAcquire
  \/ StartClear
  \/ StartOpen
  \/ StartOpenRaises
  \/ StartStream
  \/ StartStreamRaises
  \/ StartThread
  \/ StopNotRecording
  \/ StopBegin
  \/ StopStream
  \/ \E outcome \in {"stop_raises", "close_raises"} : StopStreamRaises(outcome)
  \/ StopJoin
  \/ HandleError
  \/ CallbackAcquire
  \/ CallbackAppend
  \/ ProcessAudioData
  \/ \E t \in LoopIds :
       \/ LoopInit(t)
       \/ LoopExit(t)
       \/ LoopLenAcquire(t)
       \/ \E d \in SleepTicks : LoopLen(t, d)
       \/ LoopSliceAcquire(t)
       \/ LoopSlice(t)
       \/ LoopRaises(t)
       \/ \E d \in SleepTicks : LoopEmit(t, d)

SpecCancel ==
  /\ Init
  /\ [][NextCancel]_vars
  /\ \A t \in LoopIds : WF_vars(LoopStep(t))
  /\ WF_vars(CallbackAppend)
  /\ WF_vars(MainStep)

\* the settings form on its own: the user edits it, saves it as it
\* stands, or resets it
NextSettings ==
  \/ \E c \in 1..MaxChunkSeconds, o \in 0..MaxOverlapSeconds :
       \E analysis \in AnalysisForms : EditForm(c, o, analysis)
  \/ SaveSettings
  \/ ResetToDefaults

SpecSettings == Init /\ [][NextSettings]_vars

\* ================================================================ claims
LastSamples(w, k) == SubSeq(w, Len(w) - k + 1, Len(w))
FirstSamples(w, k) == SubSeq(w, 1, k)

\* a loop thread performs its slice
SliceStep(t) == loops[t].pc = "slice" /\ loops'[t].pc = "emit"

\* thread t is the loop of the current session, no other thread has sliced
\* in this session, and its overlap is shorter than its window
SoleLoopOfSession(t) ==
  /\ t = session
  /\ slicers \subseteq {t}
  /\ 0 <= loops[t].overlap_samples
  /\ loops[t].overlap_samples < loops[t].analysis_chunk_samples

\* C1: for two consecutive windows sliced by the background loop of one
\* recording session (0 <= overlap_samples < analysis_chunk_samples), under
\* every interleaving with the capture callback, the last overlap_samples
\* samples of the earlier window are, position by position, the first
\* overlap_samples samples of the later one.
C1_OverlapInvariant ==
  [][\A t \in LoopIds :
       (SliceStep(t) /\ SoleLoopOfSession(t) /\ lastSlice.by = t) =>
         LastSamples(lastSlice.win, loops[t].overlap_samples)
           = FirstSamples(loops'[t].chunk, loops[t].overlap_samples)]_vars

\* the loop of the session has sliced a window that does not begin with
\* the first sample of the session, after an earlier one, with an overlap
\* of at least one sample
C1_Witness ==
  \E t \in LoopIds :
    /\ SoleLoopOfSession(t)
    /\ loops[t].overlap_samples >= 1
    /\ loops[t].pc = "emit"
    /\ lastSlice = [win |-> loops[t].chunk, by |-> t]
    /\ loops[t].chunk[1] > sessionFirst

\* a loop thread with a valid configuration (0 <= overlap < window, so
\* that each slice advances the buffer by step_samples > 0) leaves the emit
\* step, its window having been sliced
EmitStep(t) ==
  /\ loops[t].pc = "emit"
  /\ loops'[t].pc # "emit"
  /\ 0 <= loops[t].overlap_samples
  /\ loops[t].overlap_samples < loops[t].analysis_chunk_samples

\* C2: every window the background loop has removed from the buffer is
\* delivered through audio_data_ready: when a loop thread passes its emit
\* step, the window it sliced is appended to the queue of emitted windows.
C2_EveryWindowDelivered ==
  [][\A t \in LoopIds :
       EmitStep(t) =>
         queue' = Append(queue, [win |-> loops[t].chunk,
                                 sess |-> loops[t].chunkSession])]_vars

\* the slice of thread t finds at least a window of samples, and the
\* window has overlap_samples trailing samples
SliceOfFullWindow(t) ==
  /\ SliceStep(t)
  /\ Len(audio_buffer) >= loops[t].analysis_chunk_samples
  /\ 0 <= loops[t].overlap_samples
  /\ loops[t].overlap_samples <= loops[t].analysis_chunk_samples

\* C3 as claimed: a slice of a buffer that holds at least window_length
\* samples returns the first window_length samples and leaves in the buffer
\* only the overlap_length trailing samples of the returned window.
C3_RetainsOnlyOverlap ==
  [][\A t \in LoopIds :
       SliceOfFullWindow(t) =>
         /\ loops'[t].chunk
              = FirstSamples(audio_buffer, loops[t].analysis_chunk_samples)
         /\ audio_buffer'
              = LastSamples(loops'[t].chunk, loops[t].overlap_samples)]_vars

\* C3 amended: the slice returns the first window_length samples and leaves
\* in the buffer the overlap_length trailing samples of the returned window
\* followed by every sample that lay beyond window_length.
C3_SliceRetention ==
  [][\A t \in LoopIds :
       SliceOfFullWindow(t) =>
         /\ loops'[t].chunk
              = FirstSamples(audio_buffer, loops[t].analysis_chunk_samples)
         /\ audio_buffer'
              = LastSamples(loops'[t].chunk, loops[t].overlap_samples)
                  \o SubSeq(audio_buffer,
                            loops[t].analysis_chunk_samples + 1,
                            Len(audio_buffer))]_vars

\* a window has been sliced from a buffer that held more than a window
C3_Witness ==
  \E t \in LoopIds :
    /\ loops[t].pc = "emit"
    /\ loops[t].overlap_samples >= 1
    /\ loops[t].overlap_samples < loops[t].analysis_chunk_samples
    /\ Len(loops[t].chunk) = loops[t].analysis_chunk_samples
    /\ Len(audio_buffer) > loops[t].overlap_samples
    /\ slicers = {t}
    /\ cbPc = "idle"
    /\ nextSample = loops[t].chunk[1] + loops[t].step_samples
                      + Len(audio_buffer)

\* the loop threads that are inside their while loop
RunningLoops ==
  {t \in LoopIds : loops[t].pc \notin {"unborn", "init", "done"}}

\* C4: a configuration with overlap >= window is never stored, and the
\* background loop never runs with step_samples <= 0.
C4_InvalidOverlapRejected ==
  /\ overlap_duration < analysis_chunk_duration
  /\ \A t \in RunningLoops : loops[t].step_samples > 0

\* the threads that are at a statement reading or writing audio_buffer
BufferAccessors ==
  {who \in {MainThread} : mainPc \in {"start_clear", "level"}}
    \cup {who \in {CallbackThread} : cbPc = "append"}
    \cup {who \in {LoopThread(t) : t \in LoopIds} :
             loops[who[2]].pc \in {"len", "slice"}}

\* C5: every thread that reads or writes audio_buffer holds buffer_lock
\* while it does, at most one thread holds buffer_lock, and a loop thread
\* holds it only for the length read and the slice, never while it emits a
\* window or sleeps.
C5_LockDiscipline ==
  /\ Cardinality(buffer_lock) <= 1
  /\ \A who \in BufferAccessors : who \in buffer_lock
  /\ \A t \in LoopIds :
       LoopThread(t) \in buffer_lock => loops[t].pc \in {"len", "slice"}

\* the callback holds the lock while a loop thread emits and another
\* thread waits for the lock
C5_Witness ==
  /\ buffer_lock = {CallbackThread}
  /\ \E t \in LoopIds : loops[t].pc = "emit"
  /\ mainPc = "start_lock" \/ \E t \in LoopIds : loops[t].pc = "slice_lock"

\* start_recording returns normally, having run to its end
StartReturns == mainPc = "start_thread" /\ mainPc' = "idle"

\* C6: when a start_recording call made while idle returns without raising,
\* is_recording is True, the stream is open and running, the thread it
\* started is alive, and the buffer holds only samples captured in the new
\* session; every window sliced holds only samples of the session it is
\* sliced in.
C6_StartPostcondition ==
  [][/\ StartReturns =>
          /\ is_recording'
          /\ stream' = "active"
          /\ recording_thread' \in LoopIds
          /\ loops'[recording_thread'].pc = "init"
          /\ recording_thread' = session'
          /\ \A i \in DOMAIN audio_buffer' : audio_buffer'[i] >= sessionFirst'
     /\ \A t \in LoopIds :
          SliceStep(t) =>
            \A i \in DOMAIN loops'[t].chunk :
               loops'[t].chunk[i] >= sessionFirst']_vars

\* the loop of a second session has sliced its first window, samples of
\* the first session having been captured before
C6_Witness ==
  \E t \in LoopIds :
    /\ session = 2
    /\ sessionFirst > 1
    /\ loops[t].pc = "emit"
    /\ t = 2
    /\ loops[t].chunkSession = 2
    /\ loops[t].chunk # <<>>
    /\ is_recording

\* C7: a start_recording that finds no source raises to its caller and the
\* session does not begin: is_recording stays False, no stream is opened,
\* no thread is started, the buffer is unchanged, and
\* MainWindow.is_recording stays False.
C7_NoSourceFound ==
  [][(lastError # "NoSource" /\ lastError' = "NoSource") =>
       /\ ~is_recording /\ ~is_recording'
       /\ stream' = stream
       /\ leakedActive' = leakedActive
       /\ loops' = loops
       /\ recording_thread' = recording_thread
       /\ audio_buffer' = audio_buffer
       /\ session' = session
       /\ ~mw_is_recording /\ ~mw_is_recording'
       /\ mainPc' = "raised"]_vars

\* a start has failed for want of a source while the buffer still held
\* samples of an earlier session
C7_Witness ==
  /\ lastError = "NoSource"
  /\ audio_buffer # <<>>
  /\ ~is_recording
  /\ ~mw_is_recording
  /\ session >= 1

\* stop_recording, called while recording with the stream running,
\* returns: from its exception handler, stop_stream() having raised, or
\* after the join
StopReturns ==
  \/ /\ mainPc = "raised"
     /\ lastError = "StopFailed"
     /\ stream = "active"
     /\ mainPc' = "idle"
  \/ mainPc = "stop_join" /\ mainPc' = "idle"

\* C8: when a stop_recording call made while recording returns, on every
\* exit path, is_recording is False and the stream is closed and its
\* reference cleared.
C8_StopReleases ==
  [][StopReturns => (~is_recording' /\ stream' = "None")]_vars

\* ------------------------------------------------------------- analyzer
Returned == result.engine # "no_result"

SubScores == {"tone", "clarity", "volume", "fluency"}

Pipeline == {"engine", "tone", "clarity", "volume", "fillers", "rate"}

\* C9: for every all-zero window analyze_audio returns a snapshot with
\* overall score 0, every sub-score 0, no alerts and an empty
\* transcription, and it does so at the _has_speech gate: neither the
\* engine nor any extractor is invoked for that window.
C9_SilenceGate ==
  /\ (anPc # "idle" => ~cur.allZero)
  /\ (Returned /\ result.allZero) =>
        /\ ~result.passedGate
        /\ result.results.scores.overall = 0
        /\ \A s \in SubScores : result.results.scores[s] = 0
        /\ result.results.alerts = <<>>
        /\ result.results.transcription = <<>>
        /\ result.called \cap Pipeline = {}

\* a window of zeros, as long as a window can be, has been analysed
C9_Witness ==
  /\ Returned
  /\ result.allZero
  /\ result.results.duration >= 2
  /\ result.results.scores = ZeroScores

EngineFailures ==
  {"unavailable", "nonzero", "run_raises", "write_raises", "timeout"}

HasErrorAlert(alerts) ==
  \E i \in 1..Len(alerts) : alerts[i].text = "Analysis error"

\* C10: for a window that passes the speech gate, when the engine is
\* unavailable, exits non-zero, raises or times out, _transcribe_audio
\* returns the empty string and analyze_audio still returns a snapshot
\* with the tone, clarity and volume sub-scores its extractors computed,
\* a fluency sub-score of 0, no error field and no 'Analysis error' alert.
C10_TranscriptionFailureDegrades ==
  /\ (anPc \in {"tone", "clarity", "volume", "text"}
        /\ cur.engine \in EngineFailures)
       => cur.results.transcription = <<>>
  /\ (Returned /\ result.passedGate /\ result.engine \in EngineFailures) =>
        /\ result.results.transcription = <<>>
        /\ {"tone", "clarity", "volume"} \subseteq result.called
        /\ \A m \in {"tone", "clarity", "volume"} :
              /\ "score" \in DOMAIN result.results.metrics[m]
              /\ result.results.scores[m] = result.results.metrics[m].score
        /\ result.results.scores.fluency = 0
        /\ result.results.error = ""
        /\ ~HasErrorAlert(result.results.alerts)

\* the engine timed out on a window whose tone, clarity and volume all
\* scored
C10_Witness ==
  /\ Returned
  /\ result.passedGate
  /\ result.engine = "timeout"
  /\ result.results.scores.tone = 100
  /\ result.results.scores.clarity = 100
  /\ result.results.scores.volume = 100
  /\ result.results.scores.fluency = 0
  /\ result.results.scores.overall = 70

\* C11: on every exit path of _transcribe_audio that created the temporary
\* WAV file (success, non-zero exit, timeout, exception while writing or
\* running) the file no longer exists when the call returns, so that no
\* temporary file is ever left behind.
C11_TempFileCleanup == tmp_files = 0

\* C12: a settings update applied while recording takes effect on the
\* next window: every window the session's loop slices has the length and
\* the overlap of the chunk duration, overlap duration and sample rate in
\* force at the moment of the slice.
C12_SettingsTakeEffect ==
  [][\A t \in LoopIds :
       (SliceStep(t) /\ t = session /\ is_recording) =>
          /\ loops[t].analysis_chunk_samples =
               DurationSamples(analysis_chunk_duration, sample_rate)
          /\ loops[t].overlap_samples =
               DurationSamples(overlap_duration, sample_rate)]_vars

AudioExtractors == {"tone", "clarity", "volume"}

TextExtractors == {"fillers", "rate"}

\* C13: for a window that passes the speech gate, an extractor that fails
\* internally contributes metrics with score 0, every other extractor
\* still runs and its score is the one in the snapshot, and analyze_audio
\* returns a normal snapshot, not the error result.
C13_ExtractorFailureIsolated ==
  (Returned /\ result.passedGate) =>
     LET r == result.results
     IN  /\ \A m \in result.failed : r.metrics[m].score = 0
         /\ AudioExtractors \subseteq result.called
         /\ r.transcription # <<>> => TextExtractors \subseteq result.called
         /\ \A m \in AudioExtractors \cap result.called :
               r.scores[m] = r.metrics[m].score
         /\ r.transcription # <<>> =>
               r.scores.fluency =
                 (r.metrics.fillers.score + r.metrics.rate.score) \div 2
         /\ r.error = ""
         /\ ~HasErrorAlert(r.alerts)

\* the volume extractor alone failed on a window whose other extractors
\* all scored
C13_Witness ==
  /\ Returned
  /\ result.passedGate
  /\ result.failed = {"volume"}
  /\ result.results.scores.volume = 0
  /\ result.results.scores.tone = 100
  /\ result.results.scores.clarity = 100
  /\ result.results.transcription # <<>>
  /\ result.results.metrics.fillers.score = 100
  /\ result.results.metrics.rate.score > 0
  /\ result.results.scores.overall > 0

ScoreNames == SubScores \cup {"overall"}

\* C14: in every snapshot analyze_audio returns (speech, silence, degraded
\* transcription, extractor failure or error result) each of the tone,
\* clarity, volume and fluency sub-scores and the overall score is an
\* integer in 0..100.
C14_ScoreRange ==
  Returned =>
     \A s \in ScoreNames : result.results.scores[s] \in 0..100

\* a window whose tone, clarity and volume reached the upper end of the
\* range and whose fluency and overall scores lie inside it
C14_Witness ==
  /\ Returned
  /\ result.passedGate
  /\ result.failed = {}
  /\ \A s \in AudioExtractors : result.results.scores[s] = 100
  /\ result.results.scores.fluency = 90
  /\ result.results.scores.overall = 97

\* the sub-scores weighted with the configured weights, in hundredths
ConfiguredSum(scores) ==
  settings.weights.tone * scores.tone
    + settings.weights.clarity * scores.clarity
    + settings.weights.volume * scores.volume
    + settings.weights.fluency * scores.fluency

Abs(x) == IF x < 0 THEN -x ELSE x

\* C15: the overall score is the sum of the four sub-scores, each
\* multiplied by its configured weight (defaults 0.25, 0.25, 0.20, 0.30),
\* rounded to the nearest integer.
C15_OverallRounded ==
  (Returned /\ result.passedGate) =>
     2 * Abs(100 * result.results.scores.overall
               - ConfiguredSum(result.results.scores)) <= 100

WeightSum(w) == w.tone + w.clarity + w.volume + w.fluency

\* the sub-scores weighted with the default weights, in hundredths
DefaultSum(scores) ==
  DefaultAnalysis.weights.tone * scores.tone
    + DefaultAnalysis.weights.clarity * scores.clarity
    + DefaultAnalysis.weights.volume * scores.volume
    + DefaultAnalysis.weights.fluency * scores.fluency

\* C16: whenever the configuration supplied has four weights that do not
\* sum to 1.0, the overall score is computed with the default weights,
\* whose sum is 1.0 (the score lies less than one point from the
\* default-weighted sum of the sub-scores).
C16_InvalidWeightsNotUsed ==
  (Returned /\ result.passedGate /\ WeightSum(settings.weights) # 100) =>
     /\ WeightSum(DefaultAnalysis.weights) = 100
     /\ Abs(100 * result.results.scores.overall
              - DefaultSum(result.results.scores)) < 100

\* weights summing to 1.6 have been saved and a window with non-zero
\* sub-scores was scored 70, its default-weighted sum
C16_Witness ==
  /\ Returned
  /\ result.passedGate
  /\ WeightSum(settings.weights) = 160
  /\ \A s \in AudioExtractors : result.results.scores[s] = 100
  /\ result.results.scores.fluency = 0
  /\ result.results.scores.overall = 70
  /\ result.engine = "unavailable"

HasAlert(alerts, text) == \E i \in 1..Len(alerts) : alerts[i].text = text

Prosody == "Consider varying your pitch more for natural prosody"
Articulation == "Focus on clear articulation and enunciation"
Consistency == "Try to maintain consistent volume levels"
SpeakFaster == "Consider speaking a bit faster for better engagement"
SlowDown == "Consider slowing down for better clarity"

\* the alerts of a snapshot follow the three score rules
ScoreAlertRules(r) ==
  /\ HasAlert(r.alerts, Prosody) <=> r.scores.tone < 70
  /\ HasAlert(r.alerts, Articulation) <=> r.scores.clarity < 70
  /\ HasAlert(r.alerts, Consistency) <=> r.scores.volume < 70

\* the words per minute of a snapshot whose rate was computed
RateComputed(r) == "word_count" \in DOMAIN r.metrics.rate

\* C17 as stated: for every snapshot of a window that passed the gate the
\* alerts hold the prosody, articulation and consistency suggestions iff
\* the tone, clarity and volume scores are below 70, 'speak faster' iff
\* the words per minute are below the good range and 'slow down' iff they
\* are above it.
C17_AlertRulesAsStated ==
  (Returned /\ result.passedGate /\ RateComputed(result.results)
     /\ "rate" \notin result.failed) =>
     LET r == result.results
         wpm == r.metrics.rate.words_per_minute
     IN  /\ ScoreAlertRules(r)
         /\ HasAlert(r.alerts, SpeakFaster) <=>
               wpm[1] < thresholds.speaking_rate_good[1] * wpm[2]
         /\ HasAlert(r.alerts, SlowDown) <=>
               wpm[1] > thresholds.speaking_rate_good[2] * wpm[2]

\* C17: for every snapshot of a window that passed the gate the alerts
\* hold the prosody, articulation and consistency suggestions iff the
\* tone, clarity and volume scores are below 70, 'speak faster' iff the
\* words per minute are above 0 and below the good range, and 'slow down'
\* iff they are above it; every matching alert is present.
C17_AlertRules ==
  (Returned /\ result.passedGate) =>
     LET r == result.results
         wpm == Get(r.metrics.rate, "words_per_minute", <<0, 1>>)
     IN  /\ ScoreAlertRules(r)
         /\ HasAlert(r.alerts, SpeakFaster) <=>
               /\ wpm[1] > 0
               /\ wpm[1] < thresholds.speaking_rate_good[1] * wpm[2]
         /\ HasAlert(r.alerts, SlowDown) <=>
               wpm[1] > thresholds.speaking_rate_good[2] * wpm[2]

\* a fast speaker with low tone, clarity and volume scores gets all four
\* alerts that apply
C17_Witness ==
  /\ Returned
  /\ result.passedGate
  /\ RateComputed(result.results)
  /\ result.results.metrics.rate.word_count = 4
  /\ result.results.duration = 1
  /\ HasAlert(result.results.alerts, Prosody)
  /\ HasAlert(result.results.alerts, Articulation)
  /\ HasAlert(result.results.alerts, Consistency)
  /\ HasAlert(result.results.alerts, SlowDown)
  /\ ~HasAlert(result.results.alerts, SpeakFaster)

ReduceFillers == "Reduce filler words"

\* the tokens of a text that are words, and those of them that are
\* filler words whatever their case
WordPositions(text) == {i \in 1..Len(text) : text[i] # "..."}

FillerPositions(text) ==
  {i \in WordPositions(text) :
     \/ text[i] \in filler_words
     \/ text[i] = "Um" /\ "um" \in filler_words}

\* C18: for every transcription the alerts contain the filler-reduction
\* alert iff filler count / token count exceeds the filler threshold in
\* force, and the alert shows that ratio as a percentage with one decimal;
\* 3 fillers among 5 tokens give ratio 0.6, filler score 0 and the alert
\* 'Reduce filler words (60.0% of speech)'.
C18_FillerAlert ==
  (Returned /\ result.passedGate /\ result.results.transcription # <<>>
     /\ "fillers" \notin result.failed) =>
     LET r == result.results
         total == Cardinality(WordPositions(r.transcription))
         count == Cardinality(FillerPositions(r.transcription))
     IN  /\ HasAlert(r.alerts, ReduceFillers) <=>
               100 * count > thresholds.filler_words_threshold * total
         /\ \A i \in 1..Len(r.alerts) :
               r.alerts[i].text = ReduceFillers =>
                  2 * Abs(r.alerts[i].arg * total - 1000 * count) <= total
         /\ (total = 5 /\ count = 3) =>
               /\ r.metrics.fillers.ratio = <<3, 5>>
               /\ r.metrics.fillers.score = 0
               /\ \E i \in 1..Len(r.alerts) :
                     r.alerts[i] = [text |-> ReduceFillers, arg |-> 600]

\* 'Um Um Um sales sales' has been analysed with the default filler words
C18_Witness ==
  /\ Returned
  /\ result.passedGate
  /\ result.results.transcription = <<"Um", "Um", "Um", "sales", "sales">>
  /\ "um" \in filler_words
  /\ result.failed = {}
  /\ result.results.metrics.fillers.count = 3
  /\ result.results.metrics.fillers.score = 0
  /\ HasAlert(result.results.alerts, ReduceFillers)

\* the alerts that speak about a category of metrics
CategoryAlerts(m) ==
  IF m = "tone" THEN {Prosody}
  ELSE IF m = "clarity" THEN {Articulation}
  ELSE IF m = "volume" THEN {Consistency}
  ELSE IF m = "fillers" THEN {ReduceFillers}
  ELSE {SpeakFaster, SlowDown}

Categories == AudioExtractors \cup TextExtractors

\* the metrics of category m were computed for the snapshot
Computed(r, m) ==
  /\ m \in DOMAIN r.metrics
  /\ DOMAIN r.metrics[m] # {}

\* no alert of a snapshot speaks about a category that was not computed
NoAlertForMissingCategory(r) ==
  \A m \in Categories :
     ~Computed(r, m) =>
        \A text \in CategoryAlerts(m) : ~HasAlert(r.alerts, text)

Gated == Returned /\ ~result.passedGate /\ result.engine # "raised"

\* C19 as stated: no alert is present for a category whose metrics were
\* not computed: a gated window has no alerts, a window with an empty
\* transcription has no filler or speaking-rate alert, and a snapshot
\* whose metrics mapping is empty has an empty alerts list.
C19_NoAlertWithoutMetricsAsStated ==
  Returned =>
     /\ NoAlertForMissingCategory(result.results)
     /\ Gated => result.results.alerts = <<>>
     /\ DOMAIN result.results.metrics = {} => result.results.alerts = <<>>

\* C19: no alert is present for a category whose metrics were not
\* computed: a gated window has no alerts, a window with an empty
\* transcription has no filler or speaking-rate alert, and a snapshot
\* whose metrics mapping is empty (the error result) has no alert but
\* 'Analysis error', which it has iff the error message is not empty.
C19_NoAlertWithoutMetrics ==
  Returned =>
     LET r == result.results
     IN  /\ NoAlertForMissingCategory(r)
         /\ Gated => r.alerts = <<>>
         /\ (result.passedGate /\ r.transcription = <<>>) =>
               /\ ~Computed(r, "fillers")
               /\ ~Computed(r, "rate")
         /\ DOMAIN r.metrics = {} =>
               r.alerts = IF r.error # "" THEN <<Alert("Analysis error")>>
                          ELSE <<>>

\* the error result with a message: no metrics, and the error alert
C19_Witness ==
  /\ Returned
  /\ result.engine = "raised"
  /\ DOMAIN result.results.metrics = {}
  /\ result.results.error # ""
  /\ Len(result.results.alerts) = 1

\* the tone score the specification gives for what the pitch tracker found
ProsodyScore(input) ==
  IF input.kind = "unvoiced" THEN 0
  ELSE IF input.pitch_std < thresholds.pitch_variance_good[1] THEN 50
  ELSE IF input.pitch_std > thresholds.pitch_variance_good[2] THEN 70
  ELSE 100

\* C20: the tone score of a window is 0 when it has no voiced pitch
\* frame, otherwise 100 when the pitch standard deviation lies within the
\* good range, bounds included, 50 when it is below the range and 70 when
\* it is above; a monotone voiced window (deviation 0) scores 50.
C20_ProsodyScore ==
  [][\A input \in ToneInputs :
       (input.kind # "raises" /\ AnalyzeTone(input)) =>
          /\ cur'.results.metrics.tone.score = ProsodyScore(input)
          /\ (input.kind = "voiced" /\ input.pitch_std = 0) =>
                cur'.results.metrics.tone.score = 50]_vars

\* a voiced, perfectly monotone window has been scored 50
C20_Witness ==
  /\ anPc = "clarity"
  /\ "tone" \in cur.called
  /\ "tone" \notin cur.failed
  /\ cur.results.metrics.tone = [pitch_std |-> 0, score |-> 50]

\* the filler ratio of a text is above the configured threshold
AboveThreshold(text) ==
  LET m == FillerMetrics(text, filler_words, thresholds)
  IN  100 * m.ratio[1] > thresholds.filler_words_threshold * m.ratio[2]

\* a text of as many words as the analysed one, with fewer fillers, whose
\* ratio is above the threshold as well
FewerFillers(alt, text) ==
  /\ Len(Words(alt)) = Len(Words(text))
  /\ FillerCount(Words(alt), filler_words)
       < FillerCount(Words(text), filler_words)
  /\ AboveThreshold(alt)

\* C21: for a fixed word count and two filler counts k < k' whose ratios
\* are both above the threshold, the filler score for k' fillers is
\* strictly lower than the filler score for k fillers.
C21_FillerMonotone ==
  (/\ anPc = "publish"
   /\ "fillers" \in result.called
   /\ "fillers" \notin result.failed
   /\ AboveThreshold(result.results.transcription)) =>
     \A alt \in TextStageTexts :
        FewerFillers(alt, result.results.transcription) =>
           result.results.metrics.fillers.score
             < FillerMetrics(alt, filler_words, thresholds).score

\* the speaking rate of a returned result has been computed
RateScored ==
  /\ anPc = "publish"
  /\ "rate" \in result.called
  /\ "rate" \notin result.failed

\* C22: the rate score is 100 when the words per minute lie within the
\* good range, bounds included, is 0 at 0 words per minute, is
\* wpm / lower * 100 below the range and 100 - (wpm - upper) / 2 above it
\* (whole part), and is never below 0.
C22_RateScoreBounds ==
  RateScored =>
    LET m == result.results.metrics.rate
        num == m.words_per_minute[1]
        den == m.words_per_minute[2]
        lo == thresholds.speaking_rate_good[1]
        hi == thresholds.speaking_rate_good[2]
    IN  /\ m.score >= 0
        /\ (lo * den <= num /\ num <= hi * den) => m.score = 100
        /\ num = 0 => m.score = 0
        /\ num < lo * den =>
             /\ lo * den * m.score <= 100 * num
             /\ 100 * num < lo * den * (m.score + 1)
        /\ (num > hi * den /\ num - hi * den <= 200 * den) =>
             /\ 2 * den * m.score <= 200 * den - (num - hi * den)
             /\ 200 * den - (num - hi * den) < 2 * den * (m.score + 1)
        /\ num - hi * den > 200 * den => m.score = 0

\* a window spoken at exactly the upper bound of the good range has
\* scored 100
C22_Witness ==
  /\ RateScored
  /\ result.results.metrics.rate.word_count = 10
  /\ result.results.metrics.rate.words_per_minute[1]
       = thresholds.speaking_rate_good[2]
           * result.results.metrics.rate.words_per_minute[2]
  /\ result.results.metrics.rate.score = 100

\* save_settings runs on a form that load_settings has just filled from
\* the settings of the widget
SaveOfLoadedForm ==
  /\ SaveSettings
  /\ form = LoadedForm(audio_settings, settings)

\* C23: loading a configuration into the settings form and saving it back
\* reproduces identical threshold, weight and duration values.
C23_ConfigRoundTrip ==
  [][SaveOfLoadedForm =>
       /\ audio_settings' = audio_settings
       /\ settings' = settings]_vars

\* thread t emits the window it holds through audio_data_ready
EmitsWindow(t) ==
  /\ loops[t].pc = "emit"
  /\ loops'[t].pc = "while"
  /\ queue' = Append(queue, [win |-> loops[t].chunk,
                             sess |-> loops[t].chunkSession])

\* C24: under every interleaving of the capture callback, the background
\* loop and start/stop calls, every window emitted through
\* audio_data_ready contains exactly analysis_chunk_samples samples.
C24_FixedLengthWindows ==
  [][\A t \in LoopIds :
       EmitsWindow(t) =>
         Len(loops[t].chunk) = loops[t].analysis_chunk_samples]_vars

\* thread t has been started and has not ended
Alive(t) == loops[t].pc \notin {"unborn", "done"}

\* C25: after stop_recording has cleared is_recording, and as long as no
\* start_recording sets it again, every loop thread that is alive ends; a
\* loop thread that looks at the cleared flag ends at once, so that it
\* emits at most the window of the iteration it was in.
C25_PromptCancellation ==
  /\ \A t \in LoopIds :
       (~is_recording /\ Alive(t)) ~> (loops[t].pc = "done" \/ is_recording)
  /\ [][\A t \in LoopIds :
          /\ EmitsWindow(t) => loops'[t].pc = "while"
          /\ (loops[t].pc = "while" /\ ~is_recording
                /\ loops'[t] # loops[t]) => loops'[t].pc = "done"]_vars

\* stop_recording has returned and a loop thread still holds a window it
\* has not emitted yet
C25_Witness ==
  \E t \in LoopIds :
    /\ ~is_recording
    /\ ~mw_is_recording
    /\ mainPc = "idle"
    /\ loops[t].pc = "emit"
    /\ loops[t].chunk # <<>>
    /\ loops[t].sinceEmit >= EmitInterval

\* what a redundant command must leave alone: the buffer, the stream, the
\* loop threads and the flag; it returns to the event loop without an error
ManagerUntouched ==
  /\ audio_buffer' = audio_buffer
  /\ stream' = stream
  /\ leakedActive' = leakedActive
  /\ recording_thread' = recording_thread
  /\ loops' = loops
  /\ is_recording' = is_recording
  /\ buffer_lock' = buffer_lock
  /\ lastError' = lastError
  /\ mainPc' = "idle"

\* C26: start_recording called while is_recording is True, and
\* stop_recording called while is_recording is False, return without
\* raising and leave the buffer contents, the stream, the background
\* thread and is_recording unchanged.
C26_RedundantCommandsNoOp ==
  [][(StartAlreadyRecording \/ StopNotRecording) => ManagerUntouched]_vars

\* a start whose start_stream() raised has left is_recording set; a second
\* start has returned as "Already recording": no thread was ever started
C26_Witness ==
  /\ is_recording
  /\ mw_is_recording
  /\ recording_thread = 0
  /\ stream = "opened"
  /\ mainPc = "idle"

\* C27: for every sequence of start_recording and stop_recording calls,
\* including a stop whose join times out followed at once by a new start,
\* at most one loop thread executes _process_audio_buffer at any time.
C27_SingleConsumer == Cardinality(RunningLoops) <= 1

\* process_audio_data hands the window at the head of the queue to the
\* analyzer: MainWindow.is_recording is set
AnalyzesWindow == ProcessAudioData /\ mw_is_recording

\* C28: a window emitted by the background loop during one recording
\* session is never analyzed after that session's stop has completed; a
\* window still queued when stop_real_time_analysis runs is not analyzed
\* during a later session.
C28_NoStaleAnalysis ==
  [][AnalyzesWindow => Head(queue).sess = session]_vars

\* the start_recording call of the current session has returned without
\* raising, and no stop_recording has cleared the flag since
Recording ==
  /\ is_recording
  /\ session >= 1
  /\ recording_thread = session

\* C29: in every reachable state in which is_recording is True and
\* start_recording has returned, a background loop thread is running; when
\* the loop leaves through its exception handler the manager does not
\* remain in Recording.
C29_RecordingHasConsumer ==
  Recording => \E t \in LoopIds : Alive(t)

\* start_recording has raised to its caller
StartRaised ==
  /\ mainPc = "raised"
  /\ lastError \in {"NoSource", "OpenFailed", "StartFailed"}

\* C30: whenever start_recording raises, for any reason, is_recording is
\* False afterwards, so that a later start_recording call is not rejected
\* as "Already recording".
C30_FailedStartLeavesIdle == StartRaised => ~is_recording

====
